---- MODULE Spec2Model ----
(***************************************************************************)
(* State-machine model of the cTCP sliding-window transport of             *)
(* src/lab3/ctcp.c: one connection (struct ctcp_state), the callbacks      *)
(* ctcp_read, ctcp_receive, ctcp_output and ctcp_timer, and the substrate  *)
(* calls they make (conn_input, conn_bufspace, conn_output, conn_send).    *)
(*                                                                         *)
(* A segment is a record [seqno, ackno, flags, data]; its payload length   *)
(* ntohs(len) - sizeof(ctcp_segment_t) is Len(data).  The checksum is       *)
(* modelled by the boolean input "corrupt" of ctcp_receive.                *)
(***************************************************************************)
EXTENDS Integers, Sequences, FiniteSets, TLC

(* ------------------------------ bounds -------------------------------- *)
\* MAX_SEG_DATA_SIZE (ctcp_sys.h), scaled down: most bytes one conn_input reads.
MAX_SEG_DATA_SIZE == 2
\* cfg->send_window, scaled down (one full segment).
SendWindow == 2
\* cfg->rt_timeout in clock units.
RtTimeout == 1
\* Largest sequence number the local application may be assigned.
MaxSeq == 3
\* Length of the peer's byte stream under Spec.
MaxPeerSeq == 1
\* Length of the peer's byte stream under SpecRecv.
RecvPeerSeq == 3
\* Largest length of the peer's byte stream under SpecPerm.
PermLen == 3
\* Largest value conn_bufspace returns.
MaxBuf == 2

\* Bits of one byte of an IPv4 address, scaled down; an address has two
\* bytes.
ByteBits == 2
\* Largest number of routing-table entries under SpecRib.
MaxRoutes == 2
\* Largest TTL of a received IP packet under SpecRouter.
MaxTtl == 2
\* Most packets waiting on ARP requests at a time under SpecRouter.
MaxQueued == 2
\* ARP requests sent for one address before the router gives up.
MaxArpSent == 5
\* Largest initial window given to bbr_init.
MaxSndCwnd == 2
\* Most bbr_main calls of a run under SpecBbr.
MaxRounds == 4
\* The clock stops at MaxNow ms under SpecBbr and advances ClockStep ms at
\* a time.
MaxNow == 300
ClockStep == 100

(* -------------------------- program constants -------------------------- *)
\* ctcp_timer: retransmition == 5 means the peer is unresponsive.
MaxRetransmit == 5

ACK == "ACK"
FIN == "FIN"

VARIABLES
  state,      \* struct ctcp_state: the connection's fields
  destroyed,  \* the ctcp_destroy calls made on the connection, by call site
  elapsed,    \* current_time() - state->last_retransmit_time, counted up to
              \* RtTimeout: the code reads the two only in this difference
  sentNow,    \* conn_send calls of the last callback, in order
  written,    \* conn_output calls of the last callback, in order
  out,        \* every byte written to the application so far
  eofs,       \* number of conn_output calls of length 0 so far
  lastOp,     \* the last callback, its input and the return it took
  max_ackno,  \* largest ackno of a segment that reached ACK processing
  fin_seqno,  \* seqno given to the FIN this side sent (0: none)
  stream,     \* the peer application's byte stream, indexed by seqno
  pending,    \* segments of the peer's stream not yet arrived (SpecPerm)
  sr,         \* struct sr_instance: routing table, ARP cache, ARP requests
  wire,       \* the router's last call: the frame it was given as the call
              \* left it, and the sr_send_packet calls it made, in order
  bbr,        \* struct bbr_state: the congestion controller's fields
  now,        \* current_time(), in ms
  lock,       \* the thread that holds sr->cache.lock ("none": free)
  pc          \* where the router's dispatch thread is inside sr_handlepacket,
              \* with the locals it holds there

\* The variables of the cTCP connection and those of the router.
cvars == <<state, destroyed, elapsed, sentNow, written, out, eofs, lastOp,
           max_ackno, fin_seqno, stream, pending>>
rvars == <<sr, wire, lock, pc>>
bvars == <<bbr, now>>

vars == <<state, destroyed, elapsed, sentNow, written, out, eofs, lastOp,
          max_ackno, fin_seqno, stream, pending, sr, wire, bbr, now, lock,
          pc>>

\* The ten slots of a filter, all holding v.
Filter(v) == [i \in 1..10 |-> v]

\* The bbr field of a connection as calloc leaves it in ctcp_init: every
\* field zero.
BbrZero ==
  [pacing_gain |-> 0, cwnd_gain |-> 0, mode |-> "STARTUP", max_btlbw |-> 0,
   max_btlbw_stamp |-> 0, min_rtt_us |-> 0, min_rtt_stamp |-> 0,
   pacing_rate |-> 0, cwnd |-> 0, BtlBwFilter |-> Filter(0),
   RTpropFilter |-> Filter(0), cycle_idx |-> 0, full_bw |-> 0,
   full_bw_cnt |-> 0, inflight |-> 0, probe_rtt_done_stamp |-> 0,
   restore_cwnd |-> FALSE, prior_cwnd |-> 0, delivered_time |-> 0,
   delivered |-> 0, next_send_time |-> 0]

\* A process whose controller was never initialised.
BbrIdle == bbr = BbrZero /\ now = 0

\* A process that runs no router: sr_init was never called.
RouterIdle ==
  /\ sr = [routing_table |-> <<>>, cache |-> {}, requests |-> <<>>]
  /\ wire = [op |-> "none"]
  /\ lock = "none"
  /\ pc = [at |-> "idle"]

Bytes == {0, 1}

Min(a, b) == IF a < b THEN a ELSE b
Max(a, b) == IF a > b THEN a ELSE b

\* ntohs(segment->len) - sizeof(ctcp_segment_t)
DataLen(seg) == Len(seg.data)

\* A segment read from freed memory: its bytes are indeterminate.
Undef == [seqno |-> 0, ackno |-> 0, flags |-> {"UNDEF"}, data |-> <<>>]

(* ------------------------------ helpers -------------------------------- *)
\* on_air: bytes between the first unacked seqno and the end of the last one.
on_air(st) ==
  IF Len(st.unacked) # 0
    THEN (st.unacked[Len(st.unacked)].seqno - st.unacked[1].seqno)
         + DataLen(st.unacked[Len(st.unacked)])
    ELSE 0

\* send_ack_segment: a header-only segment with the ACK flag.
send_ack_segment(st) ==
  [seqno |-> st.seqno, ackno |-> st.ackno, flags |-> {ACK}, data |-> <<>>]

\* A faulty send_fin_segment that numbers the FIN one past the current seqno:
\* C10 must tell it from the real one.
send_fin_segment_next(st) ==
  [seqno |-> st.seqno + 1, ackno |-> st.ackno, flags |-> {FIN}, data |-> <<>>]

\* send_fin_segment: a header-only segment with the FIN flag.
send_fin_segment(st) ==
  [seqno |-> st.seqno, ackno |-> st.ackno, flags |-> {FIN}, data |-> <<>>]

\* send_data_segment: the bytes read, flagged ACK.
send_data_segment(st, buf) ==
  [seqno |-> st.seqno, ackno |-> st.ackno, flags |-> {ACK}, data |-> buf]

\* One conn_send call: the line of code that made it, and what it sent.
Sent(kind, seg) == [kind |-> kind, seg |-> seg]

\* ctcp_init
InitState ==
  [seqno |-> 1, ackno |-> 1, retransmition |-> 0,
   send_fin |-> FALSE, receive_fin |-> FALSE, receive_ack_fin |-> FALSE,
   unacked |-> <<>>, unoutput |-> <<>>]

(* --------------------------- receive pipeline --------------------------- *)
\* A faulty stale test that lets segments with payload through: C6 must tell
\* it from the real one.
StaleSegmentFinOnly(st, seg) ==
  seg.seqno < st.ackno /\ FIN \in seg.flags

\* ctcp_receive, "Deal with the stale segment": below ackno and carrying
\* payload or FIN.
StaleSegment(st, seg) ==
  seg.seqno < st.ackno /\ (DataLen(seg) > 0 \/ FIN \in seg.flags)

\* ctcp_receive, "Deal with duplicate segment issue": some buffered segment
\* has the same seqno.
DuplicateSegment(st, seg) ==
  \E i \in 1..Len(st.unoutput) : st.unoutput[i].seqno = seg.seqno

\* A faulty removal that frees at most the first acknowledged segment: C3
\* must tell it from the real one.
RemoveAckedOnce(q, ackno) ==
  IF Len(q) # 0 /\ q[1].seqno < ackno THEN Tail(q) ELSE q

\* A faulty removal that frees the newest segment instead of the oldest: C30
\* must tell it from the real one.
RemoveAckedLast(q, ackno) ==
  IF Len(q) # 0 /\ q[1].seqno < ackno THEN SubSeq(q, 1, Len(q) - 1) ELSE q

\* ctcp_receive, "Remove segments in unacked which have been acked": pop the
\* head while its seqno is below the ackno received.
RECURSIVE RemoveAcked(_, _)
RemoveAcked(q, ackno) ==
  IF Len(q) # 0 /\ q[1].seqno < ackno THEN RemoveAcked(Tail(q), ackno) ELSE q

\* The walk of the insertion's last branch: after every node i but the last,
\* add the segment when it lies strictly between nodes i and i+1.
RECURSIVE InsertWalk(_, _, _)
InsertWalk(q, seg, i) ==
  IF i > Len(q) THEN <<>>
  ELSE <<q[i]>>
       \o (IF i < Len(q) /\ seg.seqno > q[i].seqno /\ seg.seqno < q[i + 1].seqno
             THEN <<seg>> ELSE <<>>)
       \o InsertWalk(q, seg, i + 1)

\* A faulty insertion that always appends: C1 must tell it from the real one.
InsertUnoutputAppend(q, seg) == Append(q, seg)

\* ctcp_receive, "Insert segment with data into unoutput".
InsertUnoutput(q, seg) ==
  IF Len(q) # 0
    THEN IF seg.seqno < q[1].seqno THEN <<seg>> \o q
         ELSE IF seg.seqno > q[Len(q)].seqno THEN Append(q, seg)
         ELSE InsertWalk(q, seg, 1)
    ELSE <<seg>>

\* The loop of ctcp_output.  r holds the connection state, the sink's free
\* space (conn_bufspace, which each conn_output lowers by what it writes),
\* the conn_output calls made, has_output, and whether the loop returned
\* early for lack of space.
RECURSIVE OutputLoop(_)
OutputLoop(r) ==
  IF Len(r.st.unoutput) = 0 THEN r
  ELSE LET seg == Head(r.st.unoutput)
           fin == FIN \in seg.flags
       IN IF r.st.ackno = seg.seqno
            THEN IF r.space < DataLen(seg)
                   THEN [r EXCEPT !.returned = TRUE]
                   ELSE OutputLoop(
                          [st |-> [r.st EXCEPT
                                     !.ackno = @ + DataLen(seg) + (IF fin THEN 1 ELSE 0),
                                     !.unoutput = Tail(@)],
                           space |-> r.space - DataLen(seg),
                           writes |-> r.writes \o <<seg.data>>
                                      \o (IF fin THEN << <<>> >> ELSE <<>>),
                           has_output |-> TRUE,
                           returned |-> FALSE])
            ELSE r

\* ctcp_output: deliver the in-order head segments, then one ACK if anything
\* was delivered and the loop did not return early.
ctcp_output(st, space) ==
  LET r == OutputLoop([st |-> st, space |-> space, writes |-> <<>>,
                       has_output |-> FALSE, returned |-> FALSE])
  IN [st |-> r.st,
      sent |-> IF r.has_output /\ ~r.returned
                 THEN <<Sent("ack", send_ack_segment(r.st))>> ELSE <<>>,
      writes |-> r.writes]

\* ctcp_receive, "Deal with ACK segment".
AckProcessing(st, seg) ==
  IF ACK \in seg.flags
    THEN [st EXCEPT !.unacked = RemoveAcked(@, seg.ackno),
                    !.receive_ack_fin = IF st.send_fin THEN TRUE ELSE @]
    ELSE st

\* ctcp_receive, "If receive FIN segment".
FinDetection(st, seg) ==
  IF FIN \in seg.flags THEN [st EXCEPT !.receive_fin = TRUE] ELSE st

\* A faulty handling of a corrupted segment that answers it with an ACK: C11
\* must tell it from the real one.
IgnoreCorruptedAck(st) ==
  [st |-> st, sent |-> <<Sent("ack", send_ack_segment(st))>>,
   writes |-> <<>>, path |-> "corrupted"]

\* ctcp_receive, "Ignore the corrupted segment": return, nothing else.
IgnoreCorrupted(st) ==
  [st |-> st, sent |-> <<>>, writes |-> <<>>, path |-> "corrupted"]

\* ctcp_receive: the whole callback.  path names the return it took.
ctcp_receive(st, seg, corrupt, space) ==
  IF corrupt
    THEN IgnoreCorrupted(st)
  ELSE IF StaleSegment(st, seg)
    THEN [st |-> st, sent |-> <<Sent("ack", send_ack_segment(st))>>,
          writes |-> <<>>, path |-> "stale"]
  ELSE IF DuplicateSegment(st, seg)
    THEN [st |-> st, sent |-> <<Sent("ack", send_ack_segment(st))>>,
          writes |-> <<>>, path |-> "duplicate"]
  ELSE LET s1 == FinDetection(AckProcessing(st, seg), seg)
           s2 == IF DataLen(seg) > 0 \/ FIN \in seg.flags
                   THEN [s1 EXCEPT !.unoutput = InsertUnoutput(@, seg)]
                   ELSE s1
       IN [path |-> "processed"] @@ ctcp_output(s2, space)

(* ----------------------------- send pipeline ---------------------------- *)
\* The bytes conn_input hands over: n bytes of the local application's stream.
LocalBytes(seqno, n) == [i \in 1..n |-> (seqno + i) % 2]

\* ctcp_read.  n is what conn_input returns when it is called: -1 on EOF,
\* else the number of bytes read (at most MAX_SEG_DATA_SIZE).  called tells
\* whether conn_input was reached, stamped whether last_retransmit_time was
\* set to current_time().
ctcp_read(st, n) ==
  IF SendWindow <= on_air(st)
    THEN [st |-> st, sent |-> <<>>, called |-> FALSE, stamped |-> FALSE]
  ELSE IF st.send_fin
    THEN [st |-> st, sent |-> <<>>, called |-> FALSE, stamped |-> FALSE]
  ELSE IF n = 0
    THEN [st |-> st, sent |-> <<>>, called |-> TRUE, stamped |-> FALSE]
  ELSE IF n = -1
    THEN LET fin == send_fin_segment(st)
         IN [st |-> [st EXCEPT !.seqno = @ + 1,
                               !.send_fin = TRUE,
                               !.retransmition = 0,
                               !.unacked = Append(@, fin)],
             sent |-> <<Sent("fin", fin)>>, called |-> TRUE, stamped |-> TRUE]
  ELSE LET segment == send_data_segment(st, LocalBytes(st.seqno, n))
       IN [st |-> [st EXCEPT !.seqno = @ + n,
                             !.retransmition = 0,
                             !.unacked = Append(@, segment)],
           sent |-> <<Sent("data", segment)>>, called |-> TRUE, stamped |-> TRUE]

(* --------------------------------- timer -------------------------------- *)
\* ctcp_destroy: both queues are emptied and freed, then the state is freed.
ctcp_destroy(st) == [st EXCEPT !.unacked = <<>>, !.unoutput = <<>>]

\* What the build may do when ctcp_timer goes on using a state that
\* ctcp_destroy has freed: stop (a crash, or end_client having exited), read
\* the scalar fields as they were and the freed queues as empty, or read the
\* freed queues as holding indeterminate bytes.
UafOutcomes == {"halt", "stale", "stale_list"}

\* ctcp_timer, "Output all unoutput segment": every buffered segment is
\* handed to conn_send.
FlushUnoutput(q) == [i \in 1..Len(q) |-> Sent("flush", q[i])]

\* ctcp_timer, for the one connection of state_list.  el is current_time() -
\* last_retransmit_time; uaf is the outcome of the reads that follow the first
\* ctcp_destroy, which is not followed by a return.  stamped tells whether
\* last_retransmit_time was set to current_time().
ctcp_timer(st, el, uaf) ==
  LET nonempty == Len(st.unacked) # 0
      freed == nonempty /\ st.retransmition = MaxRetransmit
  IN IF freed /\ uaf = "halt"
       THEN [st |-> ctcp_destroy(st), sent |-> <<>>, stamped |-> FALSE,
             destroys |-> <<"unresponsive">>]
       ELSE
  LET s1 == IF freed THEN ctcp_destroy(st) ELSE st
      resend == nonempty /\ el >= RtTimeout
      sent1 == IF resend
                 THEN <<Sent("retransmit", IF freed THEN Undef ELSE Head(st.unacked))>>
                 ELSE <<>>
      s2 == IF resend
              THEN [s1 EXCEPT !.retransmition = @ + 1]
              ELSE s1
      teardown == s2.send_fin /\ s2.receive_ack_fin /\ s2.receive_fin
      sent2 == IF ~teardown THEN <<>>
               ELSE IF freed
                 THEN (IF uaf = "stale_list" THEN <<Sent("flush", Undef)>> ELSE <<>>)
                 ELSE FlushUnoutput(s2.unoutput)
  IN [st |-> IF teardown THEN ctcp_destroy(s2) ELSE s2,
      sent |-> sent1 \o sent2,
      stamped |-> resend,
      destroys |-> (IF freed THEN <<"unresponsive">> ELSE <<>>)
                   \o (IF teardown THEN <<"teardown">> ELSE <<>>)]

(* ------------------------------ environment ----------------------------- *)
\* Payload of the peer's stream from seqno s, n bytes.
PeerData(s, n) == [i \in 1..n |-> stream[s + i - 1]]

\* The segments the network may deliver, built as the peer's
\* send_data_segment, send_ack_segment and send_fin_segment build them, with
\* any seqno, ackno and payload length.
DataSegments ==
  UNION {{[seqno |-> s, ackno |-> a, flags |-> {ACK}, data |-> PeerData(s, n)] :
            a \in 1..(MaxSeq + 1), n \in 1..Min(MAX_SEG_DATA_SIZE, Len(stream) + 1 - s)} :
         s \in 1..Len(stream)}

AckSegments ==
  {[seqno |-> s, ackno |-> a, flags |-> {ACK}, data |-> <<>>] :
     s \in 1..(Len(stream) + 1), a \in 1..(MaxSeq + 1)}

FinSegments ==
  {[seqno |-> s, ackno |-> a, flags |-> {FIN}, data |-> <<>>] :
     s \in 1..(Len(stream) + 1), a \in 1..(MaxSeq + 1)}

Segments == DataSegments \cup AckSegments \cup FinSegments

NoSeg == [seqno |-> 0, ackno |-> 0, flags |-> {}, data |-> <<>>]

\* The record of a callback: which one, the return it took, what conn_input
\* returned (n), and of a received segment whether it carried payload, the
\* ackno it carried under the ACK flag (0: no ACK flag) and whether its seqno
\* was below the connection's ackno when it arrived.
Op(op, path, seg, n) ==
  [op |-> op, path |-> path, payload |-> DataLen(seg) > 0,
   ackno |-> IF ACK \in seg.flags THEN seg.ackno ELSE 0, n |-> n,
   below |-> FALSE]

RECURSIVE Flatten(_)
Flatten(ws) == IF ws = <<>> THEN <<>> ELSE Head(ws) \o Flatten(Tail(ws))

ZeroWrites(ws) == Cardinality({i \in 1..Len(ws) : Len(ws[i]) = 0})

Open == destroyed = <<>>

(* -------------------------------- actions ------------------------------- *)
Init ==
  /\ state = InitState
  /\ destroyed = <<>>
  /\ elapsed = 0
  /\ sentNow = <<>>
  /\ written = <<>>
  /\ out = <<>>
  /\ eofs = 0
  /\ lastOp = Op("init", "", NoSeg, 0)
  /\ max_ackno = 0
  /\ fin_seqno = 0
  /\ stream = [i \in 1..MaxPeerSeq |-> i % 2]
  /\ pending = {}
  /\ RouterIdle
  /\ BbrIdle

\* The application has input: the library calls ctcp_read.
Read ==
  /\ Open
  /\ \E n \in -1..MAX_SEG_DATA_SIZE :
       /\ state.seqno + (IF n = -1 THEN 1 ELSE n) <= MaxSeq + 1
       /\ \E r \in {ctcp_read(state, n)} :
             /\ state' = r.st
             /\ elapsed' = IF r.stamped THEN 0 ELSE elapsed
             /\ sentNow' = r.sent
             /\ fin_seqno' = IF r.st.send_fin /\ ~state.send_fin
                               THEN state.seqno ELSE fin_seqno
             /\ lastOp' = Op("read", IF r.called THEN "input" ELSE "blocked",
                             NoSeg, IF r.called THEN n ELSE 0)
  /\ written' = <<>>
  /\ UNCHANGED <<destroyed, out, eofs, max_ackno, stream, pending>>
  /\ UNCHANGED <<rvars, bvars>>

\* The effects of one ctcp_receive call on the variables.
Deliver(seg, corrupt, space) ==
  \E r \in {ctcp_receive(state, seg, corrupt, space)} :
     /\ state' = r.st
     /\ sentNow' = r.sent
     /\ written' = r.writes
     /\ out' = out \o Flatten(r.writes)
     /\ eofs' = eofs + ZeroWrites(r.writes)
     /\ max_ackno' = IF r.path = "processed" /\ ACK \in seg.flags
                       THEN Max(max_ackno, seg.ackno) ELSE max_ackno
     /\ lastOp' = [Op("receive", r.path, seg, 0) EXCEPT
                     !.below = ~corrupt /\ seg.seqno < state.ackno]

\* A segment arrives: the library calls ctcp_receive.
Receive ==
  /\ Open
  /\ \/ \E seg \in Segments, space \in 0..MaxBuf :
          /\ seg.ackno <= state.seqno
          /\ Deliver(seg, FALSE, space)
     \/ Deliver(NoSeg, TRUE, 0)
  /\ UNCHANGED <<destroyed, elapsed, fin_seqno, stream, pending>>
  /\ UNCHANGED <<rvars, bvars>>

\* The sink has room again: the library calls ctcp_output.
Output ==
  /\ Open
  /\ \E space \in 0..MaxBuf :
       \E r \in {ctcp_output(state, space)} :
          /\ state' = r.st
          /\ sentNow' = r.sent
          /\ written' = r.writes
          /\ out' = out \o Flatten(r.writes)
          /\ eofs' = eofs + ZeroWrites(r.writes)
          /\ lastOp' = Op("output", "", NoSeg, 0)
  /\ UNCHANGED <<destroyed, elapsed, max_ackno, fin_seqno, stream, pending>>
  /\ UNCHANGED <<rvars, bvars>>

\* The periodic timer fires: the library calls ctcp_timer.
Timer ==
  /\ Open
  /\ \E uaf \in UafOutcomes :
       \E r \in {ctcp_timer(state, elapsed, uaf)} :
          /\ state' = r.st
          /\ elapsed' = IF r.stamped THEN 0 ELSE elapsed
          /\ sentNow' = r.sent
          /\ destroyed' = destroyed \o r.destroys
          /\ lastOp' = Op("timer", "", NoSeg, 0)
  /\ written' = <<>>
  /\ UNCHANGED <<out, eofs, max_ackno, fin_seqno, stream, pending>>
  /\ UNCHANGED <<rvars, bvars>>

\* Time passes.
Tick ==
  /\ elapsed < RtTimeout
  /\ elapsed' = elapsed + 1
  /\ sentNow' = <<>>
  /\ written' = <<>>
  /\ lastOp' = Op("tick", "", NoSeg, 0)
  /\ UNCHANGED <<state, destroyed, out, eofs, max_ackno, fin_seqno, stream,
                 pending>>
  /\ UNCHANGED <<rvars, bvars>>

Next == Read \/ Receive \/ Output \/ Timer \/ Tick

Spec == Init /\ [][Next]_vars

(* ------------------- the receive pipeline on its own -------------------- *)
\* The local application never writes: only segments arrive and the sink
\* drains, over a longer peer stream.
InitRecv ==
  /\ state = InitState
  /\ destroyed = <<>>
  /\ elapsed = 0
  /\ sentNow = <<>>
  /\ written = <<>>
  /\ out = <<>>
  /\ eofs = 0
  /\ lastOp = Op("init", "", NoSeg, 0)
  /\ max_ackno = 0
  /\ fin_seqno = 0
  /\ stream = [i \in 1..RecvPeerSeq |-> i % 2]
  /\ pending = {}
  /\ RouterIdle
  /\ BbrIdle

NextRecv == Receive \/ Output

SpecRecv == InitRecv /\ [][NextRecv]_vars

(* ------------- every arrival order of a segmented byte stream ----------- *)
\* The data segments of a stream cut after the positions of cuts.
Pieces(str, cuts) ==
  {[seqno |-> b, ackno |-> 1, flags |-> {ACK},
    data |-> SubSeq(str, b, CHOOSE e \in b..Len(str) :
                              /\ e \in cuts \cup {Len(str)}
                              /\ \A c \in cuts : ~(b <= c /\ c < e))] :
     b \in {1} \cup {c + 1 : c \in cuts}}

\* Every way to cut a stream into segments of 1..MAX_SEG_DATA_SIZE bytes.
Segmentations(str) ==
  {P \in {Pieces(str, cuts) : cuts \in SUBSET (1..(Len(str) - 1))} :
     \A seg \in P : DataLen(seg) <= MAX_SEG_DATA_SIZE}

InitPerm ==
  /\ state = InitState
  /\ destroyed = <<>>
  /\ elapsed = 0
  /\ sentNow = <<>>
  /\ written = <<>>
  /\ out = <<>>
  /\ eofs = 0
  /\ lastOp = Op("init", "", NoSeg, 0)
  /\ max_ackno = 0
  /\ fin_seqno = 0
  /\ stream \in UNION {[1..n -> Bytes] : n \in 1..PermLen}
  /\ pending \in Segmentations(stream)
  /\ RouterIdle
  /\ BbrIdle

\* One of the segments still in the network arrives, uncorrupted, while the
\* sink has room for the whole stream.
ReceivePerm ==
  /\ Open
  /\ \E seg \in pending :
       /\ Deliver(seg, FALSE, Len(stream))
       /\ pending' = pending \ {seg}
  /\ UNCHANGED <<destroyed, elapsed, fin_seqno, stream>>
  /\ UNCHANGED <<rvars, bvars>>

NextPerm == ReceivePerm

SpecPerm == InitPerm /\ [][NextPerm]_vars

(* -------------------------------- claims -------------------------------- *)
HasKind(sent, kind) == \E i \in 1..Len(sent) : sent[i].kind = kind

HasFin(q) == \E i \in 1..Len(q) : FIN \in q[i].flags

C2_WindowRespected == on_air(state) <= SendWindow

C4_FinAckedOnlyByItsAck ==
  state.receive_ack_fin =>
    /\ state.send_fin
    /\ max_ackno > fin_seqno
    /\ ~HasFin(state.unacked)

\* C5: a connection destroyed by the teardown path has had exactly one
\* zero-length conn_output.
C5_ExactlyOneEof ==
  (\E i \in 1..Len(destroyed) : destroyed[i] = "teardown") => eofs = 1

\* C6: receiving again a segment with payload whose seqno is below ackno
\* writes nothing, leaves the connection's fields and both queues as they
\* were, and sends exactly one pure ACK carrying the current ackno.
C6_Redelivery ==
  [][(lastOp'.op = "receive" /\ lastOp'.below /\ lastOp'.payload)
       => /\ written' = <<>>
          /\ out' = out
          /\ eofs' = eofs
          /\ state' = state
          /\ sentNow' = <<Sent("ack", [seqno |-> state.seqno,
                                       ackno |-> state.ackno,
                                       flags |-> {ACK}, data |-> <<>>])>>]_vars

\* A segment whose payload the application already has was received again
\* while this side had segments in flight.
C6_Witness ==
  /\ lastOp.op = "receive"
  /\ lastOp.below
  /\ lastOp.payload
  /\ Len(out) > 0
  /\ Len(state.unacked) # 0
  /\ Len(sentNow) = 1

\* C7 (SpecRecv): every buffered segment has seqno >= ackno and the unoutput
\* queue is in strictly ascending seqno order.
C7_UnoutputOrdered ==
  /\ \A i \in 1..Len(state.unoutput) : state.unoutput[i].seqno >= state.ackno
  /\ \A i \in 1..(Len(state.unoutput) - 1) :
        state.unoutput[i].seqno < state.unoutput[i + 1].seqno

\* C8: a received ACK that removes a segment from the unacked queue resets
\* the retry counter to 0.
C8_AckResetsRetries ==
  [][(lastOp'.op = "receive" /\ Len(state'.unacked) < Len(state.unacked))
       => state'.retransmition = 0]_vars

\* C9: ctcp_timer retransmits only when rt_timeout has elapsed and fewer than
\* MaxRetransmit retransmissions were made since the last new segment, and
\* the tick that finds the queue non-empty with the count at MaxRetransmit
\* destroys the connection and sends nothing.
C9_RetransmitLimit ==
  [][lastOp'.op = "timer"
       => /\ HasKind(sentNow', "retransmit")
               => /\ elapsed >= RtTimeout
                  /\ state.retransmition < MaxRetransmit
                  /\ state'.retransmition = state.retransmition + 1
          /\ (Len(state.unacked) # 0 /\ state.retransmition = MaxRetransmit)
               => (destroyed' # <<>> /\ sentNow' = <<>>)]_vars

C11_CorruptedDropped ==
  [][(lastOp'.op = "receive" /\ lastOp'.path = "corrupted")
       => /\ sentNow' = <<>>
          /\ written' = <<>>
          /\ out' = out
          /\ eofs' = eofs
          /\ state' = state
          /\ destroyed' = destroyed]_vars

\* A corrupted segment arrived while this side had a segment in flight, a
\* segment buffered and its FIN sent.
C11_Witness ==
  /\ lastOp.op = "receive"
  /\ lastOp.path = "corrupted"
  /\ Len(state.unacked) # 0
  /\ Len(state.unoutput) # 0
  /\ state.send_fin
  /\ sentNow = <<>>

(* ================================ router ================================ *)
(* The IPv4 router of src/lab1/router/sr_router.c.  An address is the value *)
(* of its in_addr.s_addr / uint32_t field as the code reads it: the bytes   *)
(* of the address in network order, read as an integer of a little-endian  *)
(* host (the first byte of the address is the least significant).          *)

RECURSIVE Pow2(_)
Pow2(n) == IF n = 0 THEN 1 ELSE 2 * Pow2(n - 1)

ByteMod == Pow2(ByteBits)
AddrBits == 2 * ByteBits
Addrs == 0..(Pow2(AddrBits) - 1)

\* ntohl / htonl on a little-endian host: the bytes in reverse order.
ntohl(x) == (x % ByteMod) * ByteMod + (x \div ByteMod)

\* The C operator & on two addresses.
RECURSIVE BitAnd(_, _)
BitAnd(a, b) ==
  IF a = 0 \/ b = 0 THEN 0
  ELSE (a % 2) * (b % 2) + 2 * BitAnd(a \div 2, b \div 2)

\* Number of 1 bits of a mask: the length of the prefix it stands for.
RECURSIVE MaskLen(_)
MaskLen(m) == IF m = 0 THEN 0 ELSE (m % 2) + MaskLen(m \div 2)

\* The s_addr value of the netmask of a prefix of k bits.
PrefixMask(k) == ntohl(Pow2(AddrBits) - Pow2(AddrBits - k))

\* struct sr_rt: one routing-table entry.
Route(dest, mask, gw, interface) ==
  [dest |-> dest, mask |-> mask, gw |-> gw, interface |-> interface]

\* The walk of sr_rt_for_dst from entry i on; best is the index of best_rt
\* (0: NULL).
RECURSIVE RtWalk(_, _, _, _, _)
RtWalk(rt, dst, i, best, longest_mask) ==
  IF i > Len(rt) THEN best
  ELSE IF /\ BitAnd(rt[i].mask, dst) = rt[i].dest
          /\ (longest_mask = 0 \/ rt[i].mask > longest_mask)
         THEN RtWalk(rt, dst, i + 1, i, rt[i].mask)
         ELSE RtWalk(rt, dst, i + 1, best, longest_mask)

\* A faulty lookup that returns the first entry that matches: C12 must tell
\* it from the real one.
sr_rt_first_match(rt, dst) ==
  IF \E i \in 1..Len(rt) : BitAnd(rt[i].mask, dst) = rt[i].dest
    THEN CHOOSE i \in 1..Len(rt) :
           /\ BitAnd(rt[i].mask, dst) = rt[i].dest
           /\ \A j \in 1..(i - 1) : BitAnd(rt[j].mask, dst) # rt[j].dest
    ELSE 0

\* sr_rt_for_dst: the index in the routing table of the entry returned
\* (0: NULL).
sr_rt_for_dst(rt, dst) == RtWalk(rt, dst, 1, 0, 0)

(* ------------------- the routing-table lookup on its own ---------------- *)
\* Every prefix: a mask of k leading bits and a destination with no bit
\* outside the mask.
Prefixes ==
  UNION {{Route(d, PrefixMask(k), 0, ifc) :
            d \in {a \in Addrs : BitAnd(a, PrefixMask(k)) = a},
            ifc \in {"eth0", "eth1"}} :
         k \in 0..AddrBits}

RoutingTables == UNION {[1..n -> Prefixes] : n \in 0..MaxRoutes}

\* The cTCP variables of a process that runs the router only.
CtcpIdle ==
  /\ state = InitState
  /\ destroyed = <<>>
  /\ elapsed = 0
  /\ sentNow = <<>>
  /\ written = <<>>
  /\ out = <<>>
  /\ eofs = 0
  /\ lastOp = Op("init", "", NoSeg, 0)
  /\ max_ackno = 0
  /\ fin_seqno = 0
  /\ stream = <<>>
  /\ pending = {}

InitRib ==
  /\ CtcpIdle
  /\ BbrIdle
  /\ \E rt \in RoutingTables :
       sr = [routing_table |-> rt, cache |-> {}, requests |-> <<>>]
  /\ wire = [op |-> "none"]
  /\ lock = "none"
  /\ pc = [at |-> "idle"]

\* sr_rt_for_dst is called for a destination.
RibLookup ==
  /\ \E dst \in Addrs :
       wire' = [op |-> "lookup", dst |-> dst,
                rt |-> sr_rt_for_dst(sr.routing_table, dst)]
  /\ UNCHANGED sr
  /\ UNCHANGED <<cvars, bvars, lock, pc>>

NextRib == RibLookup

SpecRib == InitRib /\ [][NextRib]_vars

\* The indices of the entries of the routing table that match dst.
Matching(rt, dst) ==
  {i \in 1..Len(rt) : BitAnd(rt[i].mask, dst) = rt[i].dest}

\* C12 (SpecRib): sr_rt_for_dst returns NULL exactly when no entry matches
\* the destination, and otherwise an entry that matches and whose prefix is
\* at least as long as that of every matching entry.
C12_LongestPrefixMatch ==
  wire.op = "lookup" =>
    LET m == Matching(sr.routing_table, wire.dst)
    IN /\ (wire.rt = 0) <=> (m = {})
       /\ wire.rt # 0 =>
            /\ wire.rt \in m
            /\ \A j \in m : MaskLen(sr.routing_table[j].mask)
                               <= MaskLen(sr.routing_table[wire.rt].mask)

\* A lookup passed over a matching first entry for a longer second one whose
\* mask fills a whole byte and more.
C12_Witness ==
  /\ wire.op = "lookup"
  /\ wire.rt = 2
  /\ 1 \in Matching(sr.routing_table, wire.dst)
  /\ MaskLen(sr.routing_table[1].mask) = ByteBits
  /\ MaskLen(sr.routing_table[2].mask) > ByteBits

\* C13 (SpecRib): among the matching entries with the same longest mask the
\* first in the table is returned.
C13_FirstOfEqualMasks ==
  (wire.op = "lookup" /\ wire.rt # 0) =>
    \A j \in Matching(sr.routing_table, wire.dst) :
       sr.routing_table[j].mask = sr.routing_table[wire.rt].mask => j >= wire.rt

(* --------------------------- router: the frames ------------------------- *)
\* The address with first byte b0 and second byte b1, as an s_addr value.
Ip(b0, b1) == b0 + ByteMod * b1

\* sr->if_list: the router's interfaces.
if_list ==
  << [name |-> "eth0", ip |-> Ip(1, 1), addr |-> "if0"],
     [name |-> "eth1", ip |-> Ip(2, 1), addr |-> "if1"] >>

\* sr_get_interface: the interface of that name.
sr_get_interface(name) ==
  CHOOSE ifc \in {if_list[i] : i \in 1..Len(if_list)} : ifc.name = name

\* The hosts around the router: A on eth0's network, B on eth1's network,
\* the gateway G on eth1's network, C behind G, and X that no route covers.
HostA == Ip(1, 2)
HostB == Ip(2, 2)
HostG == Ip(2, 3)
HostC == Ip(3, 2)
HostX == Ip(0, 2)

\* The routing table of SpecRouter: C's network through the gateway G, and
\* the two directly connected networks (gateway 0).
RouterTable ==
  << Route(Ip(3, 0), PrefixMask(ByteBits), HostG, "eth1"),
     Route(Ip(2, 0), PrefixMask(ByteBits), 0, "eth1"),
     Route(Ip(1, 0), PrefixMask(ByteBits), 0, "eth0") >>

\* ip_p of a header as a number.
ProtoCode(p) == IF p = "icmp" THEN 1 ELSE 6

\* cksum over an IP header: the 16-bit one's complement of the sum of its
\* fields.
cksum(h) ==
  65535 - ((h.ip_src + h.ip_dst + h.ip_ttl + ProtoCode(h.ip_p) + h.ip_off
            + h.ip_sum) % 65536)

\* The header with its checksum field filled in, as a sender does it.
WithSum(h) == [h EXCEPT !.ip_sum = cksum([h EXCEPT !.ip_sum = 0])]

\* An Ethernet frame with an IP packet.  The four icmp fields are the first
\* bytes after the IP header, read as sr_icmp_t3_hdr_t reads them: for an
\* echo message unused is the identifier and next_mtu the sequence number.
IpFrame(shost, dhost, src, dst, ttl, p, off, type, code, unused, next_mtu, data) ==
  [ethertype |-> "ip", ether_shost |-> shost, ether_dhost |-> dhost,
   ip_src |-> src, ip_dst |-> dst, ip_ttl |-> ttl, ip_p |-> p, ip_off |-> off,
   ip_sum |-> 0, icmp_type |-> type, icmp_code |-> code, unused |-> unused,
   next_mtu |-> next_mtu, data |-> data]

\* The bytes of a packet's IP header that an ICMP message carries as data.
IcmpData(f) ==
  [ip_src |-> f.ip_src, ip_dst |-> f.ip_dst, ip_ttl |-> f.ip_ttl,
   ip_sum |-> f.ip_sum]

NoData == [ip_src |-> 0, ip_dst |-> 0, ip_ttl |-> 0, ip_sum |-> 0]

\* An Ethernet frame with an ARP packet.
ArpFrame(shost, dhost, op, sha, sip, tha, tip) ==
  [ethertype |-> "arp", ether_shost |-> shost, ether_dhost |-> dhost,
   ar_op |-> op, ar_sha |-> sha, ar_sip |-> sip, ar_tha |-> tha,
   ar_tip |-> tip]

\* One sr_send_packet call.
Frame(iface, f) == [iface |-> iface, frame |-> f]

(* ----------------------- router: the ARP cache -------------------------- *)
\* sr_arpcache_lookup: the valid entries of the cache for ip (none or one).
sr_arpcache_lookup(cache, ip) == {e \in cache : e.ip = ip}

\* The positions of the pending requests for ip.
RequestsFor(requests, ip) == {i \in 1..Len(requests) : requests[i].ip = ip}

\* A packet waiting on a request: an owned copy of the frame and the
\* outgoing interface.
Packet(buf, iface) == [buf |-> buf, iface |-> iface]

\* sr_arpcache_queuereq that always creates a record.
sr_arpcache_queuereq_new(requests, ip, packet, iface) ==
  <<[ip |-> ip, times_sent |-> 0, packets |-> <<Packet(packet, iface)>>]>>
    \o requests

\* sr_arpcache_queuereq: append the packet to the pending request for ip,
\* creating the request (no ARP request sent yet) when there is none.
sr_arpcache_queuereq(requests, ip, packet, iface) ==
  IF RequestsFor(requests, ip) # {}
    THEN LET i == CHOOSE j \in RequestsFor(requests, ip) : TRUE
         IN  [requests EXCEPT ![i].packets = Append(@, Packet(packet, iface))]
    ELSE <<[ip |-> ip, times_sent |-> 0,
            packets |-> <<Packet(packet, iface)>>]>> \o requests

\* The sequence without its i-th element.
RemoveAt(seq, i) == SubSeq(seq, 1, i - 1) \o SubSeq(seq, i + 1, Len(seq))

\* sr_arpcache_insert followed by the caller's sr_arpreq_destroy: the mapping
\* is updated; req is the pending request for ip (none or one), which leaves
\* the request list.
sr_arpcache_insert(cache, requests, mac, ip) ==
  LET found == RequestsFor(requests, ip)
      i == CHOOSE j \in found : TRUE
  IN  [cache |-> {e \in cache : e.ip # ip} \cup {[ip |-> ip, mac |-> mac]},
       req |-> IF found = {} THEN <<>> ELSE <<requests[i]>>,
       requests |-> IF found = {} THEN requests ELSE RemoveAt(requests, i)]

\* The number of packets waiting on all requests.
RECURSIVE QueuedCount(_)
QueuedCount(requests) ==
  IF requests = <<>> THEN 0
  ELSE Len(Head(requests).packets) + QueuedCount(Tail(requests))

(* ----------------------- router: the handlers --------------------------- *)
\* What a handler leaves behind: the router's state, the sr_send_packet calls
\* it made, and the received buffer as the call left it.
Res(srv, sent, packet) == [sr |-> srv, out |-> sent, packet |-> packet]

\* An ICMP message about packet with the given rest-of-header words, sent
\* from the interface to the packet's source: ip_off is htons(IP_DF), ip_ttl
\* is 60, the data is the packet's IP header.
IcmpFrame(packet, icmp_type, icmp_code, unused, next_mtu, dst, interface) ==
  LET rec_if == sr_get_interface(interface)
  IN  Frame(interface,
            WithSum(IpFrame(rec_if.addr, packet.ether_shost, rec_if.ip, dst,
                            60, "icmp", 64, icmp_type, icmp_code, unused,
                            next_mtu, IcmpData(packet))))

\* sr_send_icmp with the rest-of-header words zeroed.
sr_send_icmp_zeroed(packet, icmp_type, icmp_code, interface) ==
  IcmpFrame(packet, icmp_type, icmp_code, 0, 0, packet.ip_src, interface)

\* sr_send_icmp: the rest-of-header words (identifier and sequence number of
\* an echo message) are copied from the received packet.
sr_send_icmp(packet, icmp_type, icmp_code, interface) ==
  IcmpFrame(packet, icmp_type, icmp_code, packet.unused, packet.next_mtu,
            packet.ip_src, interface)

\* sr_send_icmp_t3 addressed to the offending packet's destination.
sr_send_icmp_t3_to_dst(packet, icmp_type, icmp_code, interface) ==
  IcmpFrame(packet, icmp_type, icmp_code, 0, 56325, packet.ip_dst, interface)

\* sr_send_icmp_t3: unused is 0 and next_mtu is htons(1500).
sr_send_icmp_t3(packet, icmp_type, icmp_code, interface) ==
  IcmpFrame(packet, icmp_type, icmp_code, 0, 56325, packet.ip_src, interface)

\* The checksum test that accepts every header.
ChecksumAny(packet) == TRUE

\* The checksum test of sr_handle_ip: the stored sum against the sum of the
\* header with the field zeroed.
ChecksumOk(packet) == packet.ip_sum = cksum([packet EXCEPT !.ip_sum = 0])

\* for_me: the destination is the address of one of the interfaces.
for_me(ip_dst) == \E i \in 1..Len(if_list) : if_list[i].ip = ip_dst

\* A TTL step that leaves the field alone.
ttl_keep(ip_ttl) == ip_ttl

\* ip_ttl--, on the 8-bit field.
ttl_decrement(ip_ttl) == (ip_ttl - 1) % 256

\* sr_handle_ip, the branch for a packet that is not for the router.
sr_forward_ip(srv, packet, interface) ==
  LET p1 == [packet EXCEPT !.ip_ttl = ttl_decrement(@)]
      p2 == WithSum(p1)
      out_rt == sr_rt_for_dst(srv.routing_table, p2.ip_dst)
      rt == srv.routing_table[out_rt]
      if_entry == sr_get_interface(rt.interface)
      entry == sr_arpcache_lookup(srv.cache, rt.gw)
      mac == (CHOOSE e \in entry : TRUE).mac
      p3 == [p2 EXCEPT !.ether_shost = if_entry.addr, !.ether_dhost = mac]
  IN  IF p1.ip_ttl = 0
        THEN Res(srv, <<sr_send_icmp_t3(p1, 11, 0, interface)>>, p1)
      ELSE IF out_rt = 0
        THEN Res(srv, <<sr_send_icmp_t3(p2, 3, 0, interface)>>, p2)
      ELSE IF entry # {}
        THEN Res(srv, <<Frame(rt.interface, p3)>>, p3)
      ELSE Res([srv EXCEPT !.requests =
                  sr_arpcache_queuereq(@, rt.gw, p2, rt.interface)],
               <<>>, p2)

\* sr_handle_ip.
sr_handle_ip(srv, packet, interface) ==
  IF ~ChecksumOk(packet) THEN Res(srv, <<>>, packet)
  ELSE IF for_me(packet.ip_dst)
    THEN IF packet.ip_p = "icmp"
           THEN Res(srv, <<sr_send_icmp(packet, 0, 0, interface)>>, packet)
           ELSE Res(srv, <<sr_send_icmp_t3(packet, 3, 3, interface)>>, packet)
  ELSE sr_forward_ip(srv, packet, interface)

\* sr_send_arp_reply that keeps the request's sender fields as sender.
sr_send_arp_reply_same(rec_packet, interface) ==
  LET iface == sr_get_interface(interface)
  IN  Frame(interface,
            ArpFrame(iface.addr, rec_packet.ether_shost, "reply",
                     rec_packet.ar_sha, rec_packet.ar_sip, iface.addr,
                     iface.ip))

\* sr_send_arp_reply: the reply to a received request, from the receiving
\* interface to the requester.
sr_send_arp_reply(rec_packet, interface) ==
  LET iface == sr_get_interface(interface)
  IN  Frame(interface,
            ArpFrame(iface.addr, rec_packet.ether_shost, "reply",
                     iface.addr, iface.ip, rec_packet.ar_sha,
                     rec_packet.ar_sip))

\* sr_send_arp_req addressed to the all-zero MAC.
sr_send_arp_req_zero(req) ==
  LET iface == sr_get_interface(req.packets[1].iface)
  IN  Frame(iface.name,
            ArpFrame(iface.addr, "00", "request", iface.addr, iface.ip,
                     "00", req.ip))

\* sr_send_arp_req: the broadcast request for req's address, from the
\* interface of its first waiting packet.
sr_send_arp_req(req) ==
  LET iface == sr_get_interface(req.packets[1].iface)
  IN  Frame(iface.name,
            ArpFrame(iface.addr, "ff", "request", iface.addr, iface.ip,
                     "00", req.ip))

\* sr_handle_arp_reply: a reply for the receiving interface's address is
\* cached and the packets waiting for it are sent, each with the sender's
\* address as destination, on the receiving interface.
sr_handle_arp_reply(srv, arp_hdr, interface) ==
  LET iface == sr_get_interface(interface)
      ins == sr_arpcache_insert(srv.cache, srv.requests, arp_hdr.ar_sha,
                                arp_hdr.ar_sip)
      waiting == IF ins.req = <<>> THEN <<>> ELSE ins.req[1].packets
      sent == [k \in 1..Len(waiting) |->
                 Frame(iface.name,
                       [waiting[k].buf EXCEPT !.ether_dhost = arp_hdr.ar_sha,
                                              !.ether_shost = iface.addr])]
  IN  IF iface.ip = arp_hdr.ar_tip
        THEN Res([srv EXCEPT !.cache = ins.cache, !.requests = ins.requests],
                 sent, arp_hdr)
        ELSE Res(srv, <<>>, arp_hdr)

\* sr_handle_arp.
sr_handle_arp(srv, packet, interface) ==
  IF packet.ar_op = "reply" THEN sr_handle_arp_reply(srv, packet, interface)
  ELSE IF packet.ar_op = "request"
    THEN Res(srv, <<sr_send_arp_reply(packet, interface)>>, packet)
  ELSE Res(srv, <<>>, packet)

\* sr_handlepacket.
sr_handlepacket(srv, packet, interface) ==
  IF packet.ethertype = "ip" THEN sr_handle_ip(srv, packet, interface)
  ELSE IF packet.ethertype = "arp" THEN sr_handle_arp(srv, packet, interface)
  ELSE Res(srv, <<>>, packet)

\* The ICMP host unreachable (type 3, code 1) for a packet whose next hop
\* never answered, sent back towards the packet's source.
HostUnreachable(srv, pk) ==
  LET back == sr_rt_for_dst(srv.routing_table, pk.buf.ip_src)
      interface == IF back = 0 THEN pk.iface
                   ELSE srv.routing_table[back].interface
  IN  sr_send_icmp_t3(pk.buf, 3, 1, interface)

\* The periodic sweep of the pending requests, one second after the last:
\* a request asked for fewer than MaxArpSent times is asked for again, any
\* other is destroyed with a host unreachable for each waiting packet.
RECURSIVE sr_arpcache_sweepreqs(_, _, _)
sr_arpcache_sweepreqs(srv, todo, acc) ==
  IF todo = <<>> THEN Res([srv EXCEPT !.requests = acc.kept], acc.out, <<>>)
  ELSE LET req == Head(todo)
       IN  IF req.times_sent >= MaxArpSent
             THEN sr_arpcache_sweepreqs(srv, Tail(todo),
                    [kept |-> acc.kept,
                     out |-> acc.out \o
                       [k \in 1..Len(req.packets) |->
                          HostUnreachable(srv, req.packets[k])]])
             ELSE sr_arpcache_sweepreqs(srv, Tail(todo),
                    [kept |-> Append(acc.kept,
                                [req EXCEPT !.times_sent = @ + 1]),
                     out |-> Append(acc.out, sr_send_arp_req(req))])

(* ----------------------- router: the environment ------------------------ *)
\* The frames host A sends through the router: to B, C and X, with every
\* TTL up to MaxTtl, with a right or a wrong header checksum.
TransitFrames ==
  {[WithSum(IpFrame("A", "if0", HostA, dst, ttl, "tcp", 0, 0, 0, 0, 0, NoData))
      EXCEPT !.ip_sum = (@ + bad) % 65536] :
     dst \in {HostB, HostC, HostX}, ttl \in 0..MaxTtl, bad \in {0, 1}}

\* The frames host A sends to the router itself: a TCP segment, echo
\* requests (type 8) with two identifiers, and an echo reply (type 0).
LocalFrames ==
  {[WithSum(IpFrame("A", "if0", HostA, dst, MaxTtl, m.p, 0, m.type, 0, m.id,
                    m.seq, NoData))
      EXCEPT !.ip_sum = (@ + bad) % 65536] :
     dst \in {Ip(1, 1), Ip(2, 1)}, bad \in {0, 1},
     m \in {[p |-> "tcp", type |-> 0, id |-> 0, seq |-> 0],
            [p |-> "icmp", type |-> 8, id |-> 1, seq |-> 3],
            [p |-> "icmp", type |-> 8, id |-> 2, seq |-> 1],
            [p |-> "icmp", type |-> 0, id |-> 1, seq |-> 3]}}

\* The ARP frames of the gateway G and of host B: requests and replies, for
\* either interface address.
ArpFrames ==
  {ArpFrame(h.mac, IF op = "request" THEN "ff" ELSE "if1", op, h.mac, h.ip,
            "00", tip) :
     h \in {[mac |-> "G", ip |-> HostG], [mac |-> "B", ip |-> HostB]},
     op \in {"request", "reply"}, tip \in {Ip(1, 1), Ip(2, 1)}}

\* A frame that is neither IP nor ARP.
OtherFrame == [ethertype |-> "other", ether_shost |-> "A", ether_dhost |-> "if0"]

\* The frames the router receives and the interface each arrives on.
Inputs ==
  {[packet |-> f, interface |-> "eth0"] :
     f \in TransitFrames \cup LocalFrames \cup {OtherFrame}}
  \cup {[packet |-> f, interface |-> ifc] :
          f \in ArpFrames, ifc \in {"eth0", "eth1"}}

InitRouter ==
  /\ CtcpIdle
  /\ BbrIdle
  /\ sr = [routing_table |-> RouterTable, cache |-> {}, requests |-> <<>>]
  /\ wire = [op |-> "none"]
  /\ lock = "none"
  /\ pc = [at |-> "idle"]

\* The dispatch thread receives one frame: sr_handlepacket.
HandlePacket ==
  /\ \E in \in Inputs :
       \E r \in {sr_handlepacket(sr, in.packet, in.interface)} :
         /\ QueuedCount(r.sr.requests) <= MaxQueued
         /\ sr' = r.sr
         /\ wire' = [op |-> "packet", interface |-> in.interface,
                     rcvd |-> in.packet, packet |-> r.packet, out |-> r.out]
  /\ UNCHANGED <<cvars, bvars, lock, pc>>

\* The ARP thread's tick, once a second: sr_arpcache_sweepreqs.
ArpTick ==
  /\ \E r \in {sr_arpcache_sweepreqs(sr, sr.requests,
                                      [kept |-> <<>>, out |-> <<>>])} :
       /\ sr' = r.sr
       /\ wire' = [op |-> "tick", out |-> r.out]
  /\ UNCHANGED <<cvars, bvars, lock, pc>>

\* A cache entry reaches the end of its validity and is no longer found.
CacheTimeout ==
  /\ \E e \in sr.cache : sr' = [sr EXCEPT !.cache = @ \ {e}]
  /\ wire' = [op |-> "timeout"]
  /\ UNCHANGED <<cvars, bvars, lock, pc>>

NextRouter == HandlePacket \/ ArpTick \/ CacheTimeout

SpecRouter == InitRouter /\ [][NextRouter]_vars

\* The state is the one a received IP frame with a right checksum left.
HandledIp ==
  /\ wire.op = "packet"
  /\ wire.rcvd.ethertype = "ip"
  /\ wire.rcvd.ip_sum = cksum([wire.rcvd EXCEPT !.ip_sum = 0])

\* The addresses of the router's interfaces.
RouterIps == {if_list[i].ip : i \in 1..Len(if_list)}

\* f is an IP frame with a right header checksum for another machine.
Transit(f) ==
  /\ f.ethertype = "ip"
  /\ f.ip_sum = cksum([f EXCEPT !.ip_sum = 0])
  /\ f.ip_dst \notin RouterIps

\* e is an ICMP message of that type and code from the router to the sender
\* of the received frame f.
IcmpTo(e, f, icmp_type, icmp_code) ==
  /\ e.frame.ethertype = "ip"
  /\ e.frame.ip_p = "icmp"
  /\ e.frame.icmp_type = icmp_type
  /\ e.frame.icmp_code = icmp_code
  /\ e.frame.ip_dst = f.ip_src
  /\ e.frame.ether_dhost = f.ether_shost

\* C14: a transit packet received with TTL 1 (0 after the decrement) makes
\* the router send exactly one ICMP time exceeded (type 11, code 0) to the
\* packet's source; nothing else is sent and nothing is queued.
C14_TimeExceeded ==
  [][(wire'.op = "packet" /\ Transit(wire'.rcvd) /\ wire'.rcvd.ip_ttl - 1 = 0)
       => /\ Len(wire'.out) = 1
          /\ IcmpTo(wire'.out[1], wire'.rcvd, 11, 0)
          /\ sr'.requests = sr.requests]_vars

\* C14: a TTL-1 packet for host C was answered with a time exceeded while
\* another packet was waiting for the gateway.
C14_Witness ==
  /\ wire.op = "packet" /\ Transit(wire.rcvd) /\ wire.rcvd.ip_ttl = 1
  /\ wire.rcvd.ip_dst = HostC
  /\ Len(wire.out) = 1 /\ wire.out[1].frame.icmp_type = 11
  /\ sr.requests # <<>>

\* C15: a transit packet whose TTL is not 0 after the decrement and whose
\* destination no routing entry matches makes the router send exactly one
\* ICMP destination net unreachable (type 3, code 0) to the packet's source;
\* nothing else is sent and nothing is queued.
C15_NetUnreachable ==
  [][(/\ wire'.op = "packet" /\ Transit(wire'.rcvd)
      /\ wire'.rcvd.ip_ttl - 1 # 0
      /\ Matching(sr.routing_table, wire'.rcvd.ip_dst) = {})
       => /\ Len(wire'.out) = 1
          /\ IcmpTo(wire'.out[1], wire'.rcvd, 3, 0)
          /\ sr'.requests = sr.requests]_vars

\* C15: a TTL-2 packet for the unrouted host X was answered with a net
\* unreachable while another packet was waiting for the gateway.
C15_Witness ==
  /\ wire.op = "packet" /\ Transit(wire.rcvd) /\ wire.rcvd.ip_ttl = 2
  /\ wire.rcvd.ip_dst = HostX
  /\ Matching(sr.routing_table, HostX) = {}
  /\ Len(wire.out) = 1
  /\ wire.out[1].frame.icmp_type = 3 /\ wire.out[1].frame.icmp_code = 0
  /\ sr.requests # <<>>

\* The routing entry with the longest prefix among those matching dst.
LongestMatch(rt, dst) ==
  CHOOSE i \in Matching(rt, dst) :
    \A j \in Matching(rt, dst) : MaskLen(rt[i].mask) >= MaskLen(rt[j].mask)

\* The next hop of a packet for dst over a routing entry: the gateway, or
\* dst itself on a directly connected network (gateway 0).
NextHop(route, dst) == IF route.gw # 0 THEN route.gw ELSE dst

\* The step receives a transit packet that is to be forwarded: its TTL is
\* not used up by the decrement and a routing entry matches.
Forwarding ==
  /\ wire'.op = "packet" /\ Transit(wire'.rcvd)
  /\ wire'.rcvd.ip_ttl - 1 > 0
  /\ Matching(sr.routing_table, wire'.rcvd.ip_dst) # {}

\* C16: a transit packet with a matching route whose next hop is in the ARP
\* cache is sent exactly once, on the route's interface, with the received
\* TTL minus 1, a recomputed header checksum, the interface's MAC as
\* Ethernet source and the cached MAC as Ethernet destination; it is not
\* queued.
C16_ForwardOnCacheHit ==
  [][Forwarding =>
       LET route == sr.routing_table[LongestMatch(sr.routing_table,
                                                  wire'.rcvd.ip_dst)]
       IN  \A e \in sr.cache :
             e.ip = NextHop(route, wire'.rcvd.ip_dst)
               => /\ Len(wire'.out) = 1
                  /\ wire'.out[1].iface = route.interface
                  /\ wire'.out[1].frame.ip_dst = wire'.rcvd.ip_dst
                  /\ wire'.out[1].frame.ip_ttl = wire'.rcvd.ip_ttl - 1
                  /\ wire'.out[1].frame.ip_sum =
                       cksum([wire'.out[1].frame EXCEPT !.ip_sum = 0])
                  /\ wire'.out[1].frame.ether_shost =
                       sr_get_interface(route.interface).addr
                  /\ wire'.out[1].frame.ether_dhost = e.mac
                  /\ sr'.requests = sr.requests]_vars

\* C17: the address looked up in the ARP cache, and the address a forwarded
\* packet is queued under on a miss, is the route's gateway when that is not
\* 0 and the packet's destination when it is 0.
C17_NextHopAddress ==
  [][Forwarding =>
       LET route == sr.routing_table[LongestMatch(sr.routing_table,
                                                  wire'.rcvd.ip_dst)]
           nh == NextHop(route, wire'.rcvd.ip_dst)
       IN  IF \E e \in sr.cache : e.ip = nh
             THEN /\ Len(wire'.out) = 1
                  /\ \E e \in sr.cache :
                       e.ip = nh /\ wire'.out[1].frame.ether_dhost = e.mac
             ELSE /\ wire'.out = <<>>
                  /\ \E i \in RequestsFor(sr'.requests, nh) :
                       LET q == sr'.requests[i].packets
                       IN  q[Len(q)].buf.ip_dst = wire'.rcvd.ip_dst]_vars

\* f is an ICMP echo request (type 8) with a right header checksum for one
\* of the router's addresses.
EchoRequest(f) ==
  /\ f.ethertype = "ip"
  /\ f.ip_sum = cksum([f EXCEPT !.ip_sum = 0])
  /\ f.ip_dst \in RouterIps
  /\ f.ip_p = "icmp"
  /\ f.icmp_type = 8

\* C18: an echo request for any of the router's addresses is answered with
\* exactly one echo reply (type 0, code 0) on the inbound interface: IP
\* source the inbound interface's address, IP destination the request's
\* source, TTL 60, DF set, identifier and sequence number as in the request,
\* Ethernet destination the request's Ethernet source.
C18_EchoReply ==
  (wire.op = "packet" /\ EchoRequest(wire.rcvd))
    => /\ Len(wire.out) = 1
       /\ wire.out[1].iface = wire.interface
       /\ wire.out[1].frame.ethertype = "ip"
       /\ wire.out[1].frame.ip_p = "icmp"
       /\ wire.out[1].frame.icmp_type = 0
       /\ wire.out[1].frame.icmp_code = 0
       /\ \E i \in 1..Len(if_list) :
            /\ if_list[i].name = wire.interface
            /\ wire.out[1].frame.ip_src = if_list[i].ip
       /\ wire.out[1].frame.ip_dst = wire.rcvd.ip_src
       /\ wire.out[1].frame.ip_ttl = 60
       /\ wire.out[1].frame.ip_off = 64
       /\ wire.out[1].frame.unused = wire.rcvd.unused
       /\ wire.out[1].frame.next_mtu = wire.rcvd.next_mtu
       /\ wire.out[1].frame.ether_dhost = wire.rcvd.ether_shost

\* C18: an echo request with identifier 2 and sequence number 1 for eth1's
\* address, received on eth0, was answered.
C18_Witness ==
  /\ wire.op = "packet" /\ EchoRequest(wire.rcvd)
  /\ wire.rcvd.ip_dst = Ip(2, 1) /\ wire.interface = "eth0"
  /\ wire.rcvd.unused = 2 /\ wire.rcvd.next_mtu = 1
  /\ Len(wire.out) = 1 /\ wire.out[1].frame.unused = 2

\* f is an IP frame whose header checksum does not verify.
BadChecksum(f) ==
  f.ethertype = "ip" /\ f.ip_sum # cksum([f EXCEPT !.ip_sum = 0])

\* C19: an IP packet whose header checksum does not verify is dropped: no
\* frame is sent, the cache and the pending requests are as before, and the
\* buffer, its checksum field included, is as received.
C19_BadChecksumDropped ==
  [][(wire'.op = "packet" /\ BadChecksum(wire'.rcvd))
       => /\ wire'.out = <<>>
          /\ sr' = sr
          /\ wire'.packet.ip_sum = wire'.rcvd.ip_sum
          /\ wire'.packet = wire'.rcvd]_vars

\* C19: a packet for host C with TTL 2 and a wrong checksum was dropped
\* while one packet was waiting for the gateway.
C19_Witness ==
  /\ wire.op = "packet" /\ BadChecksum(wire.rcvd)
  /\ wire.rcvd.ip_dst = HostC /\ wire.rcvd.ip_ttl = 2
  /\ wire.out = <<>> /\ wire.packet = wire.rcvd
  /\ Len(sr.requests) = 1 /\ Len(sr.requests[1].packets) = 1

\* C20: in every reachable state of the router there is at most one pending
\* ARP request for each address, whatever misses, ARP replies and ticks
\* came before.
C20_OneRequestPerAddress ==
  \A i, j \in 1..Len(sr.requests) :
    sr.requests[i].ip = sr.requests[j].ip => i = j

\* C20: a second packet missed the cache for the gateway after the request
\* for it had been sent once, and joined the pending request.
C20_Witness ==
  /\ wire.op = "packet" /\ Transit(wire.rcvd)
  /\ Len(sr.requests) = 1
  /\ sr.requests[1].ip = HostG
  /\ sr.requests[1].times_sent >= 1
  /\ Len(sr.requests[1].packets) = 2

\* The step receives an ARP reply addressed to the receiving interface for
\* an address that has a pending request.
ReplyForPending ==
  /\ wire'.op = "packet"
  /\ wire'.rcvd.ethertype = "arp"
  /\ wire'.rcvd.ar_op = "reply"
  /\ \E i \in 1..Len(if_list) :
       /\ if_list[i].name = wire'.interface
       /\ if_list[i].ip = wire'.rcvd.ar_tip
  /\ RequestsFor(sr.requests, wire'.rcvd.ar_sip) # {}

\* The step sends the packets q, once each and in their order, to the
\* reply's sender, each on the interface that the function of names gives
\* for it and with that interface's MAC as Ethernet source.
Drained(q, via) ==
  /\ Len(wire'.out) = Len(q)
  /\ \A k \in 1..Len(q) :
       /\ wire'.out[k].iface = via[k]
       /\ wire'.out[k].frame =
            [q[k].buf EXCEPT !.ether_dhost = wire'.rcvd.ar_sha,
                             !.ether_shost = sr_get_interface(via[k]).addr]
  /\ RequestsFor(sr'.requests, wire'.rcvd.ar_sip) = {}

\* C21: an ARP reply addressed to the receiving interface for an address
\* with a pending request makes the router send every packet queued on the
\* request exactly once, in FIFO order, on the outgoing interface recorded
\* with the packet, with the reply's sender MAC as Ethernet destination and
\* that outgoing interface's MAC as Ethernet source; the request is removed.
C21_DrainOnRecordedInterface ==
  [][ReplyForPending =>
       \A i \in RequestsFor(sr.requests, wire'.rcvd.ar_sip) :
         Drained(sr.requests[i].packets,
                 [k \in 1..Len(sr.requests[i].packets) |->
                    sr.requests[i].packets[k].iface])]_vars

\* The positions in the sent frames of the ARP requests asking for ip.
ArpRequestsFor(sent, ip) ==
  {k \in 1..Len(sent) :
     /\ sent[k].frame.ethertype = "arp"
     /\ sent[k].frame.ar_op = "request"
     /\ sent[k].frame.ar_tip = ip}

\* The positions in the sent frames of the ICMP host unreachable messages
\* (type 3, code 1) to the sender of the frame f.
HostUnreachableTo(sent, f) ==
  {k \in 1..Len(sent) :
     sent[k].frame.ethertype = "ip" /\ IcmpTo(sent[k], f, 3, 1)}

\* The number of packets waiting on requests asked for MaxArpSent times.
GivenUp(requests) ==
  QueuedCount(SelectSeq(requests, LAMBDA r : r.times_sent >= MaxArpSent))

RequestForMe ==
  /\ wire.op = "packet"
  /\ wire.rcvd.ethertype = "arp"
  /\ wire.rcvd.ar_op = "request"
  /\ \E i \in 1..Len(if_list) :
       /\ if_list[i].name = wire.interface
       /\ if_list[i].ip = wire.rcvd.ar_tip

\* C23: an ARP request for the receiving interface's address is answered
\* with exactly one ARP reply on that interface: sender hardware and
\* protocol address the interface's MAC and IP, target hardware and protocol
\* address the requester's, Ethernet destination the requester's MAC.
C23_ArpReply ==
  RequestForMe
    => /\ Len(wire.out) = 1
       /\ wire.out[1].iface = wire.interface
       /\ wire.out[1].frame.ethertype = "arp"
       /\ wire.out[1].frame.ar_op = "reply"
       /\ \E i \in 1..Len(if_list) :
            /\ if_list[i].name = wire.interface
            /\ wire.out[1].frame.ar_sha = if_list[i].addr
            /\ wire.out[1].frame.ar_sip = if_list[i].ip
            /\ wire.out[1].frame.ether_shost = if_list[i].addr
       /\ wire.out[1].frame.ar_tha = wire.rcvd.ar_sha
       /\ wire.out[1].frame.ar_tip = wire.rcvd.ar_sip
       /\ wire.out[1].frame.ether_dhost = wire.rcvd.ether_shost

\* C23: host B asked on eth1 for eth1's address and got the reply while a
\* packet was waiting on a request.
C23_Witness ==
  /\ RequestForMe
  /\ wire.interface = "eth1" /\ wire.rcvd.ar_sip = HostB
  /\ Len(wire.out) = 1 /\ wire.out[1].frame.ar_tip = HostB
  /\ wire.out[1].frame.ar_tha = "B"
  /\ sr.requests # <<>>

(* ------------------- cTCP: the BBR congestion controller ---------------- *)
\* The controller's constants, with the values their initialisers have in
\* C: a quotient of two int literals is an integer division.
bbr_probe_rtt_mode_ms == 200
bbr_high_gain == 2885 \div 1000
bbr_drain_gain == 1000 \div 2885
bbr_cwnd_gain == 2
bbr_pacing_gain == <<5 \div 4, 3 \div 4, 1, 1, 1, 1, 1, 1>>
bbr_cycle_rand == 7
bbr_cwnd_min_target == 4
bbr_full_bw_thresh == 5 \div 4
bbr_full_bw_cnt == 3
tcp_min_rtt == 40
BBR_UNIT == 256
CYCLE_LEN == 8

\* The float nearest to the integer x (below 2^31): x itself when it has
\* at most 24 significant bits, else x rounded to 24 bits, ties to even.
FloatBits == Pow2(24)
RECURSIVE ToFloat(_, _)
ToFloat(x, q) ==
  IF x < FloatBits * q
    THEN LET low == x - (x % q)
             rest == x % q
         IN  IF 2 * rest > q \/ (2 * rest = q /\ (low \div q) % 2 = 1)
               THEN low + q
               ELSE low
    ELSE ToFloat(x, 2 * q)

\* x (a uint32_t) times a gain held in a float, stored in a uint32_t: x is
\* converted to float, multiplied and truncated.  The gains of this file are
\* 0, 1, 2 and 256, which multiply a float exactly, and the samples of this
\* model keep every product below 2^31.
TimesGain(x, gain) == ToFloat(x, 1) * gain

\* The largest and the smallest element of a sequence of numbers.
SeqMax(seq) ==
  CHOOSE m \in {seq[i] : i \in 1..Len(seq)} :
    \A i \in 1..Len(seq) : seq[i] <= m
SeqMin(seq) ==
  CHOOSE m \in {seq[i] : i \in 1..Len(seq)} :
    \A i \in 1..Len(seq) : m <= seq[i]

\* bbr_bw and bbr_rtt.
bbr_bw(b) == b.max_btlbw
bbr_rtt(b) == b.min_rtt_us

\* bbr_set_pacing_rate that stores the rate in every mode.
bbr_set_pacing_rate_always(b, bw, pacing_gain) ==
  [b EXCEPT !.pacing_rate = TimesGain(bw, pacing_gain)]

\* bbr_set_pacing_rate: in STARTUP the rate is stored only if it is higher.
bbr_set_pacing_rate(b, bw, pacing_gain) ==
  LET rate == TimesGain(bw, pacing_gain)
  IN  IF b.mode # "STARTUP" \/ rate > b.pacing_rate
        THEN [b EXCEPT !.pacing_rate = rate]
        ELSE b

\* bbr_set_cwnd.
bbr_set_cwnd(b, bw, rtt, cwnd_gain) ==
  LET w == bw * rtt
      c == TimesGain(w, cwnd_gain)
  IN  [b EXCEPT !.cwnd = IF c > bbr_cwnd_min_target THEN c
                         ELSE bbr_cwnd_min_target]

\* bbr_reset_startup_mode.
bbr_reset_startup_mode(b) ==
  [b EXCEPT !.mode = "STARTUP", !.pacing_gain = bbr_high_gain,
            !.cwnd_gain = bbr_high_gain]

\* bbr_reset_probe_bw_mode; r is what rand() returned.
bbr_reset_probe_bw_mode(b, r) ==
  [b EXCEPT !.mode = "PROBE_BW", !.pacing_gain = BBR_UNIT,
            !.cwnd_gain = bbr_cwnd_gain,
            !.cycle_idx = (CYCLE_LEN - 1) - (r % bbr_cycle_rand)]

\* bbr_full_bw_reached.
bbr_full_bw_reached(b) == b.full_bw_cnt >= bbr_full_bw_cnt

\* bbr_reset_mode.
bbr_reset_mode(b, r) ==
  IF ~bbr_full_bw_reached(b) THEN bbr_reset_startup_mode(b)
  ELSE bbr_reset_probe_bw_mode(b, r)

\* bbr_save_cwnd.
bbr_save_cwnd(b) == [b EXCEPT !.prior_cwnd = b.cwnd, !.restore_cwnd = TRUE]

\* bbr_init, called at time t.
bbr_init(b, snd_cwnd, t) ==
  LET b1 == [b EXCEPT !.pacing_gain = bbr_high_gain, !.cwnd_gain = 0,
                      !.mode = "STARTUP", !.max_btlbw = snd_cwnd,
                      !.max_btlbw_stamp = t, !.min_rtt_us = tcp_min_rtt,
                      !.min_rtt_stamp = t]
      b2 == bbr_set_pacing_rate(b1, b1.max_btlbw, bbr_high_gain)
      b3 == bbr_set_cwnd(b2, b2.max_btlbw, b2.min_rtt_us, b2.cwnd_gain)
  IN  bbr_reset_startup_mode(
        [b3 EXCEPT !.BtlBwFilter = Filter(0),
                   !.RTpropFilter = Filter(2147483647),
                   !.cycle_idx = 0, !.full_bw = 0, !.full_bw_cnt = 0,
                   !.inflight = 0, !.probe_rtt_done_stamp = 0,
                   !.restore_cwnd = FALSE, !.prior_cwnd = 0,
                   !.delivered_time = t, !.delivered = 0,
                   !.next_send_time = t])

\* bbr_update_bw: the filter is shifted by one, the sample enters at its
\* end, and the estimate is the largest of the sample and the nine before.
bbr_update_bw(b, bw_sample, t) ==
  LET shifted == Tail(b.BtlBwFilter)
  IN  [b EXCEPT !.max_btlbw = SeqMax(<<bw_sample>> \o shifted),
                !.BtlBwFilter = Append(shifted, bw_sample),
                !.max_btlbw_stamp = t]

\* bbr_advance_cycle_phase.
bbr_advance_cycle_phase(b) ==
  LET idx == (b.cycle_idx + 1) % (CYCLE_LEN - 1)
  IN  [b EXCEPT !.cycle_idx = idx, !.pacing_gain = bbr_pacing_gain[idx + 1]]

\* bbr_update_cycle_phase.
bbr_update_cycle_phase(b) ==
  IF b.mode = "PROBE_BW" THEN bbr_advance_cycle_phase(b) ELSE b

\* bbr_check_full_bw_reached.
bbr_check_full_bw_reached(b) ==
  LET bw_thresh == TimesGain(b.full_bw, bbr_full_bw_thresh)
  IN  IF bbr_full_bw_reached(b) THEN b
      ELSE IF bbr_bw(b) >= bw_thresh
        THEN [b EXCEPT !.full_bw = bbr_bw(b), !.full_bw_cnt = 0]
      ELSE [b EXCEPT !.full_bw_cnt = @ + 1]

\* bbr_check_drain.
bbr_check_drain(b, r) ==
  LET b1 == IF b.mode = "STARTUP" /\ bbr_full_bw_reached(b)
              THEN [b EXCEPT !.mode = "DRAIN",
                             !.pacing_gain = bbr_drain_gain,
                             !.cwnd_gain = bbr_high_gain]
              ELSE b
  IN  IF b1.mode = "DRAIN" /\ b1.inflight <= b1.cwnd
        THEN bbr_reset_probe_bw_mode(b1, r)
        ELSE b1

\* The exit test of PROBE_RTT in bbr_update_min_rtt.
ProbeRttDone(b, t) == b.probe_rtt_done_stamp >= t

\* bbr_update_min_rtt.
bbr_update_min_rtt(b, rtt_sample, t, r) ==
  LET last_min_rtt_us == b.min_rtt_us
      shifted == Tail(b.RTpropFilter)
      b1 == [b EXCEPT !.min_rtt_us = SeqMin(<<rtt_sample>> \o shifted),
                      !.RTpropFilter = Append(shifted, rtt_sample),
                      !.min_rtt_stamp = t]
      filter_expired == b1.min_rtt_us > last_min_rtt_us
      b2 == IF /\ bbr_probe_rtt_mode_ms > 0
               /\ filter_expired
               /\ b1.mode # "PROBE_RTT"
              THEN [bbr_save_cwnd([b1 EXCEPT !.mode = "PROBE_RTT",
                                            !.pacing_gain = BBR_UNIT,
                                            !.cwnd_gain = BBR_UNIT])
                      EXCEPT !.probe_rtt_done_stamp =
                               bbr_probe_rtt_mode_ms + t]
              ELSE b1
      b3 == bbr_reset_mode(b2, r)
  IN  IF b2.mode = "PROBE_RTT" /\ ProbeRttDone(b2, t)
        THEN IF b3.restore_cwnd
               THEN [b3 EXCEPT !.cwnd = IF b3.cwnd > b3.prior_cwnd
                                          THEN b3.cwnd ELSE b3.prior_cwnd,
                               !.restore_cwnd = FALSE]
               ELSE b3
        ELSE b2

\* bbr_update_model; r1 and r2 are what the rand() calls return.
bbr_update_model(b, bw_sample, rtt_sample, t, r1, r2) ==
  bbr_update_min_rtt(
    bbr_check_drain(
      bbr_check_full_bw_reached(
        bbr_update_cycle_phase(bbr_update_bw(b, bw_sample, t))),
      r1),
    rtt_sample, t, r2)

\* bbr_main.
bbr_main(b, bw_sample, rtt_sample, t, r1, r2) ==
  LET b1 == bbr_update_model(b, bw_sample, rtt_sample, t, r1, r2)
      bw == bbr_bw(b1)
      rtt == bbr_rtt(b1)
      b2 == bbr_set_pacing_rate(b1, bw, b1.pacing_gain)
  IN  bbr_set_cwnd(b2, bw, rtt, b2.cwnd_gain)

\* The bandwidth and RTT samples the connection feeds to bbr_main.  The
\* longest RTT, 2^22 + 1 us, makes bw * rtt need more than 24 bits.
BwSamples == {4, 5}
RttSamples == {30, 50, FloatBits \div 4 + 1}

\* The values rand() % bbr_cycle_rand can take.
Rands == 0..(bbr_cycle_rand - 1)

\* The number of bbr_main calls so far, up to the length of the filter:
\* every call puts a sample, never 0, into BtlBwFilter.
Rounds(b) == Cardinality({i \in 1..Len(b.BtlBwFilter) : b.BtlBwFilter[i] # 0})

\* The state after bbr_init at time 0 on the zeroed field.
InitBbr ==
  /\ CtcpIdle
  /\ RouterIdle
  /\ \E snd_cwnd \in 1..MaxSndCwnd : bbr = bbr_init(BbrZero, snd_cwnd, 0)
  /\ now = 0

\* One bbr_main call with any samples.
BbrMain ==
  /\ Rounds(bbr) < MaxRounds
  /\ \E bw_sample \in BwSamples, rtt_sample \in RttSamples, r1, r2 \in Rands :
       bbr' = bbr_main(bbr, bw_sample, rtt_sample, now, r1, r2)
  /\ UNCHANGED <<cvars, rvars, now>>

\* Time passes.
Elapse ==
  /\ now < MaxNow
  /\ now' = now + ClockStep
  /\ UNCHANGED <<cvars, rvars, bbr>>

NextBbr == BbrMain \/ Elapse

SpecBbr == InitBbr /\ [][NextBbr]_vars

\* One bbr_main call on a path whose RTT sample never changes.
BbrRound ==
  /\ \E bw_sample \in BwSamples, rtt_sample \in RttSamples, r1, r2 \in Rands :
       /\ Rounds(bbr) > 0 => rtt_sample = bbr.RTpropFilter[10]
       /\ bbr' = bbr_main(bbr, bw_sample, rtt_sample, now, r1, r2)
  /\ UNCHANGED <<cvars, rvars, now>>

NextBbrPath == BbrRound

SpecBbrPath == InitBbr /\ [][NextBbrPath]_vars

\* C24: in STARTUP, a bbr_main round whose bandwidth estimate is below 1.25
\* times the recorded baseline full_bw counts towards pipe-full, and the
\* third such round in a row takes the controller out of STARTUP in that
\* round; a round whose estimate is at least 1.25 times the baseline sets
\* the count to 0.  (With a constant sample every round after the first is
\* of the first kind.)
C24_PipeFullAfterThreeRounds ==
  [][(bbr.mode = "STARTUP" /\ bbr.full_bw_cnt < 3 /\ now' = now)
       => IF 4 * bbr'.max_btlbw >= 5 * bbr.full_bw
            THEN bbr'.full_bw_cnt = 0
            ELSE /\ bbr'.full_bw_cnt = bbr.full_bw_cnt + 1
                 /\ bbr'.full_bw_cnt = 3 => bbr'.mode # "STARTUP"]_vars

\* C25: from the bbr_main call that enters PROBE_RTT until 200 ms later
\* (the deadline probe_rtt_done_stamp) the controller is in PROBE_RTT after
\* every call, with both gains at unity: the pacing rate is the bandwidth
\* estimate.
C25_ProbeRttHolds ==
  (bbr.probe_rtt_done_stamp # 0 /\ now < bbr.probe_rtt_done_stamp)
    => /\ bbr.mode = "PROBE_RTT"
       /\ bbr.pacing_gain = bbr.cwnd_gain
       /\ bbr.pacing_rate = bbr.max_btlbw

\* C26: a bbr_main call that starts and ends in STARTUP does not lower the
\* pacing rate.
C26_StartupRateMonotone ==
  [][(bbr.mode = "STARTUP" /\ bbr'.mode = "STARTUP")
       => bbr'.pacing_rate >= bbr.pacing_rate]_vars

\* C26: still in STARTUP, the bandwidth estimate has fallen (the higher
\* sample left the filter) and the pacing rate is held above the estimate
\* times the gain.
C26_Witness ==
  /\ bbr.mode = "STARTUP"
  /\ Rounds(bbr) = 10
  /\ bbr.max_btlbw < bbr.full_bw
  /\ bbr.pacing_rate > bbr.max_btlbw * bbr.pacing_gain

\* C27: after bbr_init and after every bbr_main call, cwnd is the larger of
\* bandwidth estimate x min-RTT estimate x current cwnd_gain and 4.
C27_CwndIsTarget ==
  bbr.cwnd = Max(bbr.max_btlbw * bbr.min_rtt_us * bbr.cwnd_gain, 4)

(* ------------------------- cTCP: output and ACKs ------------------------ *)
\* The last callback ran the output routine: ctcp_output itself, or a
\* ctcp_receive call that reached its final ctcp_output call.
RanOutput ==
  \/ lastOp.op = "output"
  \/ lastOp.op = "receive" /\ lastOp.path = "processed"

\* C28 (SpecRecv): a run of the output routine that made at least one
\* conn_output call sent exactly one header-only ACK carrying the ackno it
\* left, also when it stopped because the next segment did not fit; a run
\* that delivered nothing sent nothing.
C28_OneAckPerDelivery ==
  RanOutput
    => IF written # <<>>
         THEN sentNow = <<Sent("ack", send_ack_segment(state))>>
         ELSE sentNow = <<>>

\* The step is a ctcp_receive call on an uncorrupted segment whose seqno is
\* below the connection's ackno and that carries no payload and no FIN: of
\* the segments the network delivers here, the header-only ones with the ACK
\* flag.
StaleBareArrives ==
  /\ lastOp'.op = "receive"
  /\ lastOp'.below
  /\ ~lastOp'.payload
  /\ lastOp'.ackno # 0

\* C29 (Spec): an uncorrupted segment with seqno below ackno that carries
\* neither payload nor FIN is dropped silently: the call sends nothing and
\* leaves unacked, unoutput, ackno and the three FIN flags as they were.
C29_StaleBareDropped ==
  [][StaleBareArrives
       => /\ sentNow' = <<>>
          /\ state'.unacked = state.unacked
          /\ state'.unoutput = state.unoutput
          /\ state'.ackno = state.ackno
          /\ state'.send_fin = state.send_fin
          /\ state'.receive_fin = state.receive_fin
          /\ state'.receive_ack_fin = state.receive_ack_fin]_vars

(* --------------------------- cTCP: unacked queue ------------------------ *)
\* The sequence numbers a sent segment occupies: its payload bytes, and one
\* for a FIN.
SeqSpace(seg) == DataLen(seg) + (IF FIN \in seg.flags THEN 1 ELSE 0)

\* q is what is left of p after removing some segments from its head.
IsSuffix(q, p) ==
  \E k \in 0..Len(p) : q = SubSeq(p, k + 1, Len(p))

\* Each segment of unacked starts where the one before it ends, after it;
\* the last one ends at the connection's seqno.
UnackedContiguous ==
  /\ \A i \in 1..(Len(state.unacked) - 1) :
        /\ state.unacked[i].seqno < state.unacked[i + 1].seqno
        /\ state.unacked[i + 1].seqno
             = state.unacked[i].seqno + SeqSpace(state.unacked[i])
        /\ FIN \notin state.unacked[i].flags
  /\ Len(state.unacked) # 0
       => state.seqno = state.unacked[Len(state.unacked)].seqno
                        + SeqSpace(state.unacked[Len(state.unacked)])

\* C30 (Spec): the unacked queue is always in strictly increasing seqno
\* order and contiguous (each segment's seqno is the previous one's seqno
\* plus the previous one's payload length, a FIN takes one sequence number),
\* and a ctcp_receive call removes segments only from its head.
C30_UnackedContiguous ==
  /\ []UnackedContiguous
  /\ [][lastOp'.op = "receive" => IsSuffix(state'.unacked, state.unacked)]_vars

\* C30: two segments were in flight and an ACK removed the first only.
C30_Witness ==
  /\ lastOp.op = "receive"
  /\ lastOp.path = "processed"
  /\ Len(state.unacked) = 1
  /\ state.unacked[1].seqno > 1
  /\ lastOp.ackno = state.unacked[1].seqno

(* ------------------------- cTCP: retransmission ------------------------- *)
IsRetransmit(s) == s.kind = "retransmit"

\* The conn_send calls that ctcp_timer made from its "Resend the first
\* unacked segment" branch, among the calls given.
Retransmits(sent) == SelectSeq(sent, IsRetransmit)

\* C31 (Spec): a ctcp_timer call retransmits at most one segment; the
\* segment is the head of unacked, as it was queued; rt_timeout has elapsed
\* since last_retransmit_time; and the retry count goes up by exactly 1 with
\* a retransmission (and is unchanged without one).
C31_RetransmitHead ==
  [][lastOp'.op = "timer"
       => /\ Len(Retransmits(sentNow')) <= 1
          /\ Len(Retransmits(sentNow')) = 1
               => /\ Len(state.unacked) # 0
                  /\ Retransmits(sentNow')[1].seg = Head(state.unacked)
                  /\ elapsed >= RtTimeout
                  /\ state'.retransmition = state.retransmition + 1
          /\ Len(Retransmits(sentNow')) = 0
               => state'.retransmition = state.retransmition]_vars

(* ---------------------- BBR: a path that gets worse --------------------- *)
\* RTT samples close enough to each other that the drop of the bandwidth
\* sample outweighs the rise of the RTT sample.
CloseRtts == {30, 32}

\* One bbr_main call on a path that only gets worse: the bandwidth sample
\* is never above the last one and the RTT sample never below the last one.
BbrDegrade ==
  /\ \E bw_sample \in BwSamples, rtt_sample \in CloseRtts, r1, r2 \in Rands :
       /\ Rounds(bbr) > 0 => /\ bw_sample <= bbr.BtlBwFilter[10]
                             /\ rtt_sample >= bbr.RTpropFilter[10]
       /\ bbr' = bbr_main(bbr, bw_sample, rtt_sample, now, r1, r2)
  /\ UNCHANGED <<cvars, rvars, now>>

NextBbrDegrade == BbrDegrade

SpecBbrDegrade == InitBbr /\ [][NextBbrDegrade]_vars

\* The step is a bbr_main call that leaves PROBE_RTT: it began in PROBE_RTT,
\* or its RTT filter expired (the minimum rose), which makes it enter
\* PROBE_RTT, and it does not end in PROBE_RTT.
ProbeRttEnds ==
  /\ bbr.mode = "PROBE_RTT" \/ bbr'.min_rtt_us > bbr.min_rtt_us
  /\ bbr'.mode # "PROBE_RTT"

\* C32 (SpecBbrDegrade): the bbr_main call in which PROBE_RTT ends leaves
\* the mode PROBE_BW if full bandwidth was reached and STARTUP otherwise,
\* and leaves cwnd at least the cwnd saved on entry (prior_cwnd).
C32_ProbeRttExit ==
  [][ProbeRttEnds
       => /\ bbr'.mode = IF bbr_full_bw_reached(bbr') THEN "PROBE_BW"
                                                      ELSE "STARTUP"
          /\ bbr'.cwnd >= bbr'.prior_cwnd]_vars

(* --------------------------- BBR: the gain cycle ------------------------ *)
\* Four times the gain the table is meant to hold for a phase: 5/4 at phase
\* 0, 3/4 at phase 1, 1 at the others.
GainTimes4(idx) == IF idx = 0 THEN 5 ELSE IF idx = 1 THEN 3 ELSE 4

\* C33 (SpecBbrDegrade): in PROBE_BW the cycle index lies in 0..7 and the
\* pacing gain is the table's gain for that phase (5/4, 3/4, 1, ..., 1), and
\* a bbr_main call that starts and ends in PROBE_BW advances the index by
\* one modulo 8.
C33_GainCycle ==
  /\ [](bbr.mode = "PROBE_BW"
          => /\ bbr.cycle_idx \in 0..(CYCLE_LEN - 1)
             /\ 4 * bbr.pacing_gain = GainTimes4(bbr.cycle_idx))
  /\ [][(bbr.mode = "PROBE_BW" /\ bbr'.mode = "PROBE_BW" /\ now' = now)
          => bbr'.cycle_idx = (bbr.cycle_idx + 1) % CYCLE_LEN]_vars

(* ------------------- router: the two threads interleaved ---------------- *)
\* pthread_mutex_lock that does not take the lock.
pthread_mutex_lock_skipped(thread) == "none"

\* pthread_mutex_lock(&(cache->lock)) by thread: the holder afterwards.
pthread_mutex_lock(thread) == thread

\* sr_handle_ip gets as far as the cache lookup for this frame: right
\* checksum, not for the router, TTL left after the decrement, route found.
ReachesLookup(srv, packet) ==
  /\ packet.ethertype = "ip"
  /\ ChecksumOk(packet)
  /\ ~for_me(packet.ip_dst)
  /\ ttl_decrement(packet.ip_ttl) # 0
  /\ sr_rt_for_dst(srv.routing_table, packet.ip_dst) # 0

\* sr_handle_arp_reply takes the cache lock for this frame: an ARP reply for
\* the receiving interface's address.
AcceptedReply(packet, interface) ==
  /\ packet.ethertype = "arp"
  /\ packet.ar_op = "reply"
  /\ sr_get_interface(interface).ip = packet.ar_tip

\* sr_handle_ip up to sr_arpcache_lookup, which returns a copy of the entry
\* found; the cache lock is taken and released inside the lookup.
IpLookup ==
  /\ pc.at = "idle"
  /\ lock = "none"
  /\ QueuedCount(sr.requests) < MaxQueued
  /\ \E in \in Inputs :
       /\ ReachesLookup(sr, in.packet)
       /\ pc' = [at |-> "looked_up", in |-> in,
                 entry |-> sr_arpcache_lookup(
                             sr.cache,
                             sr.routing_table[
                               sr_rt_for_dst(sr.routing_table,
                                             in.packet.ip_dst)].gw)]
  /\ UNCHANGED <<sr, wire, lock, cvars, bvars>>

\* The rest of sr_handle_ip: the frame is sent with the copy the lookup
\* returned, or queued by sr_arpcache_queuereq on the request list as it is
\* now; the cache lock is taken and released inside sr_arpcache_queuereq.
IpSendOrQueue ==
  /\ pc.at = "looked_up"
  /\ lock = "none"
  /\ \E r \in {sr_handlepacket([sr EXCEPT !.cache = pc.entry], pc.in.packet,
                                pc.in.interface)} :
       /\ sr' = [sr EXCEPT !.requests = r.sr.requests]
       /\ wire' = [op |-> "packet", interface |-> pc.in.interface,
                   rcvd |-> pc.in.packet, packet |-> r.packet, out |-> r.out]
  /\ pc' = [at |-> "idle"]
  /\ UNCHANGED <<lock, cvars, bvars>>

\* sr_handle_arp_reply up to sr_arpcache_insert: the lock is taken and the
\* mapping updated; the request it returns is still on the list.
ReplyInsert ==
  /\ pc.at = "idle"
  /\ lock = "none"
  /\ \E in \in Inputs :
       /\ AcceptedReply(in.packet, in.interface)
       /\ sr' = [sr EXCEPT !.cache =
                   sr_arpcache_insert(sr.cache, sr.requests, in.packet.ar_sha,
                                      in.packet.ar_sip).cache]
       /\ pc' = [at |-> "drain", in |-> in]
  /\ lock' = pthread_mutex_lock("dispatch")
  /\ UNCHANGED <<wire, cvars, bvars>>

\* The rest of sr_handle_arp_reply: the waiting packets are sent, the request
\* is destroyed and the lock released.
ReplyDrain ==
  /\ pc.at = "drain"
  /\ \E r \in {sr_handlepacket(sr, pc.in.packet, pc.in.interface)} :
       /\ sr' = r.sr
       /\ wire' = [op |-> "packet", interface |-> pc.in.interface,
                   rcvd |-> pc.in.packet, packet |-> r.packet, out |-> r.out]
  /\ pc' = [at |-> "idle"]
  /\ lock' = "none"
  /\ UNCHANGED <<cvars, bvars>>

\* Any other frame: sr_handlepacket neither reads nor writes the cache.
HandleOther ==
  /\ pc.at = "idle"
  /\ \E in \in Inputs :
       /\ ~ReachesLookup(sr, in.packet)
       /\ ~AcceptedReply(in.packet, in.interface)
       /\ \E r \in {sr_handlepacket(sr, in.packet, in.interface)} :
            /\ sr' = r.sr
            /\ wire' = [op |-> "packet", interface |-> in.interface,
                        rcvd |-> in.packet, packet |-> r.packet,
                        out |-> r.out]
  /\ UNCHANGED <<lock, pc, cvars, bvars>>

\* The ARP thread, which works with the cache lock held: it runs only when
\* the lock is free, wherever the dispatch thread is.
TimeoutThread ==
  /\ lock = "none"
  /\ ArpTick \/ CacheTimeout

NextRouterThreads ==
  \/ IpLookup \/ IpSendOrQueue \/ ReplyInsert \/ ReplyDrain \/ HandleOther
  \/ TimeoutThread

SpecRouterThreads == InitRouter /\ [][NextRouterThreads]_vars

\* No address has both a cache entry and a pending request.
NoEntryAndRequest ==
  \A e \in sr.cache : RequestsFor(sr.requests, e.ip) = {}

\* C34 (SpecRouterThreads): under every interleaving of the dispatch thread
\* with the ARP thread, whenever the cache lock is free no address has both
\* a cache entry and a pending request: the insertion, the sending of the
\* waiting packets and the removal of the request happen with the lock held.
C34_NoEntryWithRequest ==
  lock = "none" => NoEntryAndRequest

\* C34: the dispatch thread is between the insertion and the removal of the
\* request, holding the lock.
C34_Witness ==
  /\ pc.at = "drain"
  /\ lock = "dispatch"
  /\ ~NoEntryAndRequest

(* ---------------------------- cTCP: destruction ------------------------- *)
\* C35 (Spec): ctcp_destroy is called at most once on the connection, and a
\* ctcp_timer call that destroys it as unresponsive does nothing more with
\* it: no conn_send (retransmission or flush), no change of the retry count,
\* no second ctcp_destroy.
C35_DestroyOnce ==
  /\ [](Len(destroyed) <= 1)
  /\ [][(lastOp'.op = "timer" /\ destroyed' # <<>>
           /\ destroyed'[1] = "unresponsive")
          => /\ sentNow' = <<>>
             /\ destroyed' = <<"unresponsive">>
             /\ state'.retransmition = state.retransmition]_vars

(* ------------------- cTCP: a segment the sink refused ------------------- *)
\* The next in-order segment is waiting in unoutput.
HeldHead ==
  /\ Len(state.unoutput) # 0
  /\ state.unoutput[1].seqno = state.ackno

\* The peer, not having been acknowledged, sends the waiting segment again,
\* and it arrives while the sink has room for it.
RetransmitHeld ==
  /\ Open
  /\ HeldHead
  /\ Deliver(state.unoutput[1], FALSE, MaxBuf)
  /\ UNCHANGED <<destroyed, elapsed, fin_seqno, stream, pending>>
  /\ UNCHANGED <<rvars, bvars>>

NextRecvLive == Receive \/ Output \/ Timer \/ RetransmitHeld

\* The receive pipeline with what is certain to go on happening: the peer's
\* retransmissions keep arriving and the timer keeps firing.  Nothing in the
\* code makes a ctcp_output call certain: its only caller is ctcp_receive.
SpecRecvLive ==
  /\ InitRecv
  /\ [][NextRecvLive]_vars
  /\ WF_vars(RetransmitHeld)
  /\ WF_vars(Timer)

\* C36 (SpecRecvLive): an in-order segment waiting in unoutput is eventually
\* delivered (it leaves unoutput and ackno moves past it), the sink having
\* room at every retransmission of it that arrives.
C36_HeldEventuallyDelivered == HeldHead ~> ~HeldHead

(* ------------------ cTCP, stop-and-wait (ctcp_stop_and_wait.c) ---------- *)
\* The connection state of the stop-and-wait variant is kept in the variable
\* state, with the fields of its struct ctcp_state; a pointer is the empty
\* sequence when NULL and a one-element sequence otherwise.

\* ctcp_init of the stop-and-wait variant.
SawInitState ==
  [seqno |-> 1, ackno |-> 1, retransmition |-> 0, last_acked |-> TRUE,
   last_received_segment |-> <<>>, last_send_segment |-> <<>>,
   send_fin |-> FALSE, receive_fin |-> FALSE, receive_ack_fin |-> FALSE]

\* The code of a segment's flags in the header sum.
FlagCode(seg) ==
  (IF ACK \in seg.flags THEN 16 ELSE 0) + (IF FIN \in seg.flags THEN 1 ELSE 0)

RECURSIVE SeqSum(_)
SeqSum(q) == IF q = <<>> THEN 0 ELSE Head(q) + SeqSum(Tail(q))

\* cksum over a segment: a 16-bit sum of its words, so that segments whose
\* words add up to the same total have the same checksum.
SegCksum(seg) ==
  (seg.seqno + seg.ackno + FlagCode(seg) + DataLen(seg) + SeqSum(seg.data))
    % 65536

\* ctcp_read of the stop-and-wait variant; n is what conn_input returns.
\* send_data_segment and send_fin_segment number the segment with seqno,
\* which is not advanced here.
saw_ctcp_read(st, n) ==
  IF ~st.last_acked \/ st.send_fin
    THEN [st |-> st, sent |-> <<>>, called |-> FALSE, stamped |-> FALSE]
  ELSE IF n = 0
    THEN [st |-> st, sent |-> <<>>, called |-> TRUE, stamped |-> FALSE]
  ELSE IF n = -1
    THEN LET fin == send_fin_segment(st)
         IN [st |-> [st EXCEPT !.send_fin = TRUE,
                               !.last_send_segment = <<fin>>,
                               !.retransmition = 0,
                               !.last_acked = FALSE],
             sent |-> <<Sent("fin", fin)>>, called |-> TRUE, stamped |-> TRUE]
  ELSE LET segment == send_data_segment(st, LocalBytes(st.seqno, n))
       IN [st |-> [st EXCEPT !.last_send_segment = <<segment>>,
                             !.retransmition = 0,
                             !.last_acked = FALSE],
           sent |-> <<Sent("data", segment)>>, called |-> TRUE, stamped |-> TRUE]

\* ctcp_receive of the stop-and-wait variant, the test that lets an ACK
\* through: its ackno is not below seqno.
SawAcceptsAck(st, seg) == ~(seg.ackno < st.seqno)

\* ctcp_output of the stop-and-wait variant, on last_received_segment.
saw_ctcp_output(st, space) ==
  LET segment == st.last_received_segment[1]
      s1 == [st EXCEPT !.ackno = @ + DataLen(segment)]
  IN  IF space = 0
        THEN [st |-> st, sent |-> <<>>, writes |-> <<>>]
        ELSE [st |-> s1, sent |-> <<Sent("ack", send_ack_segment(s1))>>,
              writes |-> <<segment.data>>]

\* ctcp_receive of the stop-and-wait variant.  path names the return taken.
saw_ctcp_receive(st, seg, corrupt, space) ==
  LET same == /\ st.last_received_segment # <<>>
              /\ SegCksum(st.last_received_segment[1]) = SegCksum(seg)
      s1 == [st EXCEPT !.last_received_segment = <<>>]
      s2 == IF ACK \in seg.flags
              THEN [s1 EXCEPT
                      !.seqno = seg.ackno,
                      !.last_send_segment = <<>>,
                      !.last_acked = IF s1.last_send_segment # <<>>
                                       THEN TRUE ELSE @,
                      !.receive_ack_fin = IF s1.send_fin THEN TRUE ELSE @]
              ELSE s1
      s3 == [s2 EXCEPT !.last_received_segment = <<seg>>]
      s4 == [s3 EXCEPT !.ackno = @ + 1, !.receive_fin = TRUE]
  IN  IF corrupt
        THEN [st |-> st, sent |-> <<>>, writes |-> <<>>, path |-> "corrupted"]
      ELSE IF same
        THEN [st |-> st,
              sent |-> IF DataLen(seg) > 0 \/ FIN \in seg.flags
                         THEN <<Sent("ack", send_ack_segment(st))>> ELSE <<>>,
              writes |-> <<>>, path |-> "duplicate"]
      ELSE IF ACK \in seg.flags /\ ~SawAcceptsAck(s1, seg)
        THEN [st |-> s1, sent |-> <<>>, writes |-> <<>>, path |-> "stale"]
      ELSE IF FIN \in seg.flags
        THEN [st |-> s4, sent |-> <<Sent("ack", send_ack_segment(s4))>>,
              writes |-> << <<>> >>, path |-> "processed"]
      ELSE IF DataLen(seg) > 0
        THEN [path |-> "processed"] @@ saw_ctcp_output(s3, space)
      ELSE [st |-> s3, sent |-> <<>>, writes |-> <<>>, path |-> "processed"]

\* ctcp_destroy of the stop-and-wait variant: both segments and the state
\* are freed.
saw_ctcp_destroy(st) ==
  [st EXCEPT !.last_send_segment = <<>>, !.last_received_segment = <<>>]

\* ctcp_timer of the stop-and-wait variant, for the one connection of
\* state_list.  As in the sliding-window timer the first ctcp_destroy is not
\* followed by a return; uaf is the outcome of the reads of freed memory.
saw_ctcp_timer(st, el, uaf) ==
  LET waiting == ~st.last_acked
      freed == waiting /\ st.retransmition = MaxRetransmit
  IN IF freed /\ uaf = "halt"
       THEN [st |-> saw_ctcp_destroy(st), sent |-> <<>>, stamped |-> FALSE,
             destroys |-> <<"unresponsive">>]
       ELSE
  LET s1 == IF freed THEN saw_ctcp_destroy(st) ELSE st
      resend == waiting /\ el >= RtTimeout
      sent1 == IF resend
                 THEN <<Sent("retransmit",
                             IF freed THEN Undef ELSE st.last_send_segment[1])>>
                 ELSE <<>>
      s2 == IF resend THEN [s1 EXCEPT !.retransmition = @ + 1] ELSE s1
      teardown == s2.send_fin /\ s2.receive_ack_fin /\ s2.receive_fin
  IN [st |-> IF teardown THEN saw_ctcp_destroy(s2) ELSE s2,
      sent |-> sent1,
      stamped |-> resend,
      destroys |-> (IF freed THEN <<"unresponsive">> ELSE <<>>)
                   \o (IF teardown THEN <<"teardown">> ELSE <<>>)]

InitSaw ==
  /\ state = SawInitState
  /\ destroyed = <<>>
  /\ elapsed = 0
  /\ sentNow = <<>>
  /\ written = <<>>
  /\ out = <<>>
  /\ eofs = 0
  /\ lastOp = Op("init", "", NoSeg, 0)
  /\ max_ackno = 0
  /\ fin_seqno = 0
  /\ stream = [i \in 1..MaxPeerSeq |-> i % 2]
  /\ pending = {}
  /\ RouterIdle
  /\ BbrIdle

\* The application has input: the library calls ctcp_read.
SawRead ==
  /\ Open
  /\ \E n \in -1..MAX_SEG_DATA_SIZE :
       /\ state.seqno + (IF n = -1 THEN 1 ELSE n) <= MaxSeq + 1
       /\ \E r \in {saw_ctcp_read(state, n)} :
             /\ state' = r.st
             /\ elapsed' = IF r.stamped THEN 0 ELSE elapsed
             /\ sentNow' = r.sent
             /\ fin_seqno' = IF r.st.send_fin /\ ~state.send_fin
                               THEN state.seqno ELSE fin_seqno
             /\ lastOp' = Op("read", IF r.called THEN "input" ELSE "blocked",
                             NoSeg, IF r.called THEN n ELSE 0)
  /\ written' = <<>>
  /\ UNCHANGED <<destroyed, out, eofs, max_ackno, stream, pending>>
  /\ UNCHANGED <<rvars, bvars>>

\* The end of what this side has sent so far: the peer acknowledges nothing
\* beyond it.
SawSentUpTo(st) ==
  st.seqno + (IF st.last_send_segment = <<>> THEN 0
              ELSE SeqSpace(st.last_send_segment[1]))

\* A segment arrives: the library calls ctcp_receive.  ackno, which this
\* variant advances for every segment it accepts, is followed up to the end
\* of the peer's stream and its FIN.
SawReceive ==
  /\ Open
  /\ \/ \E seg \in Segments, space \in 0..MaxBuf :
          /\ seg.ackno <= SawSentUpTo(state)
          /\ \E r \in {saw_ctcp_receive(state, seg, FALSE, space)} :
               /\ r.st.ackno <= Len(stream) + 2
               /\ state' = r.st
               /\ sentNow' = r.sent
               /\ written' = r.writes
               /\ out' = out \o Flatten(r.writes)
               /\ eofs' = eofs + ZeroWrites(r.writes)
               /\ lastOp' = Op("receive", r.path, seg, 0)
     \/ /\ lastOp' = Op("receive", "corrupted", NoSeg, 0)
        /\ sentNow' = <<>>
        /\ written' = <<>>
        /\ UNCHANGED <<state, out, eofs>>
  /\ UNCHANGED <<destroyed, elapsed, max_ackno, fin_seqno, stream, pending>>
  /\ UNCHANGED <<rvars, bvars>>

\* The periodic timer fires: the library calls ctcp_timer.
SawTimer ==
  /\ Open
  /\ \E uaf \in UafOutcomes :
       \E r \in {saw_ctcp_timer(state, elapsed, uaf)} :
          /\ state' = r.st
          /\ elapsed' = IF r.stamped THEN 0 ELSE elapsed
          /\ sentNow' = r.sent
          /\ destroyed' = destroyed \o r.destroys
          /\ lastOp' = Op("timer", "", NoSeg, 0)
  /\ written' = <<>>
  /\ UNCHANGED <<out, eofs, max_ackno, fin_seqno, stream, pending>>
  /\ UNCHANGED <<rvars, bvars>>

NextSaw == SawRead \/ SawReceive \/ SawTimer \/ Tick

SpecSaw == InitSaw /\ [][NextSaw]_vars

\* C37 (SpecSaw): in the stop-and-wait variant the outstanding segment is
\* released (last_acked becomes true) only by a received segment with the ACK
\* flag whose ackno is at least the segment's seqno plus its payload length,
\* plus 1 for a FIN.
C37_ReleasedOnlyWhenCovered ==
  [][(~state.last_acked /\ state'.last_acked)
       => /\ lastOp'.op = "receive"
          /\ lastOp'.ackno >= state.last_send_segment[1].seqno
                              + SeqSpace(state.last_send_segment[1])]_vars

(* ------------------ router: claims on TTL, ARP and ICMP ------------------ *)
\* The copies of the received transit packet the step sent on: the frames it
\* handed to sr_send_packet that still carry the packet's IP source and
\* destination.
ForwardedCopies ==
  {k \in 1..Len(wire'.out) :
     /\ wire'.out[k].frame.ethertype = "ip"
     /\ wire'.out[k].frame.ip_src = wire'.rcvd.ip_src
     /\ wire'.out[k].frame.ip_dst = wire'.rcvd.ip_dst}

\* The step put a packet on the queue of a pending ARP request.
QueuedOne == QueuedCount(sr'.requests) = QueuedCount(sr.requests) + 1

\* The packet the step queued: the last one of the first request whose queue
\* differs from what it was.
QueuedPacket ==
  LET i == CHOOSE i \in 1..Len(sr'.requests) :
             \A j \in 1..Len(sr.requests) :
               sr.requests[j].ip = sr'.requests[i].ip
                 => sr.requests[j].packets # sr'.requests[i].packets
      q == sr'.requests[i].packets
  IN  q[Len(q)].buf

\* C38: every transit packet the router forwards or queues for ARP
\* resolution carries the received TTL minus 1 and was received with a TTL
\* of at least 2; a packet received with TTL 0 is neither forwarded nor
\* queued.
C38_TtlAtLeastTwo ==
  [][(wire'.op = "packet" /\ Transit(wire'.rcvd))
       => /\ \A k \in ForwardedCopies :
               /\ wire'.rcvd.ip_ttl >= 2
               /\ wire'.out[k].frame.ip_ttl = wire'.rcvd.ip_ttl - 1
          /\ QueuedOne
               => /\ wire'.rcvd.ip_ttl >= 2
                  /\ QueuedPacket.ip_ttl = wire'.rcvd.ip_ttl - 1]_vars

\* The frames the last step handed to sr_send_packet: a handled packet and
\* the ARP thread's tick send frames, a cache timeout sends none.
SentFrames == IF wire.op \in {"packet", "tick"} THEN wire.out ELSE <<>>

\* The ARP replies among the frames the last step sent.
ArpRepliesSent ==
  {k \in 1..Len(SentFrames) :
     /\ SentFrames[k].frame.ethertype = "arp"
     /\ SentFrames[k].frame.ar_op = "reply"}

\* C39: the router sends an ARP reply only for an ARP request whose target
\* protocol address is the address of the interface it arrived on; an ARP
\* request for any other address is not answered.
C39_ReplyOnlyForOwnAddress == ArpRepliesSent # {} => RequestForMe

\* f is an ICMP message with a right header checksum for one of the router's
\* addresses.
IcmpForRouter(f) ==
  /\ f.ethertype = "ip"
  /\ f.ip_sum = cksum([f EXCEPT !.ip_sum = 0])
  /\ f.ip_dst \in RouterIps
  /\ f.ip_p = "icmp"

\* The ICMP messages among the frames the last step sent.
IcmpSent ==
  {k \in 1..Len(SentFrames) :
     /\ SentFrames[k].frame.ethertype = "ip"
     /\ SentFrames[k].frame.ip_p = "icmp"}

\* C40: the router sends an echo reply (type 0) only in answer to an echo
\* request (type 8) for one of its addresses, and an ICMP message of any
\* other type for the router makes it send no ICMP message.
C40_EchoReplyOnlyForRequest ==
  /\ \A k \in IcmpSent :
       SentFrames[k].frame.icmp_type = 0
         => wire.op = "packet" /\ EchoRequest(wire.rcvd)
  /\ (wire.op = "packet" /\ IcmpForRouter(wire.rcvd)
        /\ wire.rcvd.icmp_type # 8)
       => IcmpSent = {}
====
